---- MODULE Spec2Model ----
(***************************************************************************)
(* Verification model of the STRUMOTDSeedGen batch scripts.                *)
(*                                                                         *)
(* Every script is an extract / merge / enrich / write job over CSV files. *)
(* A CSV cell is modelled as a text: a sequence of one-character strings,  *)
(* so that str.strip(), str.lower(), str.split("-") and int() are computed *)
(* and not assumed.  pandas' missing value is the one-element sequence NaN.*)
(* A table (DataFrame or CSV file) is a sequence of records.               *)
(***************************************************************************)
EXTENDS Integers, Sequences, FiniteSets, TLC

(***************************************************************************)
(* Text helpers (Python str semantics on the characters the model uses).   *)
(***************************************************************************)

\* pandas' NaN / missing cell: distinct from every text, str(NaN) = "nan".
NaN == <<"NaN">>

EMPTY == <<>>

Digits == {"0", "1", "2", "3", "4", "5", "6", "7", "8", "9"}

\* ord(c) for the characters that occur in the model.
Code(c) ==
    CASE c = " " -> 32
      [] c = "-" -> 45
      [] c = "/" -> 47
      [] c = "0" -> 48
      [] c = "1" -> 49
      [] c = "2" -> 50
      [] c = "3" -> 51
      [] c = "4" -> 52
      [] c = "5" -> 53
      [] c = "6" -> 54
      [] c = "7" -> 55
      [] c = "8" -> 56
      [] c = "9" -> 57
      [] c = "A" -> 65
      [] c = "B" -> 66
      [] c = "T" -> 84
      [] c = "U" -> 85
      [] c = "a" -> 97
      [] c = "b" -> 98
      [] c = "g" -> 103
      [] c = "l" -> 108
      [] c = "m" -> 109
      [] c = "n" -> 110
      [] c = "o" -> 111
      [] c = "s" -> 115
      [] c = "t" -> 116
      [] c = "u" -> 117
      [] OTHER -> 122

\* str.lower() on one character.
LowerChar(c) ==
    CASE c = "A" -> "a"
      [] c = "B" -> "b"
      [] c = "T" -> "t"
      [] c = "U" -> "u"
      [] OTHER -> c

\* str.lower()
Lower(s) == [i \in DOMAIN s |-> LowerChar(s[i])]

RECURSIVE LStrip(_)
LStrip(s) == IF s # <<>> /\ s[1] = " " THEN LStrip(Tail(s)) ELSE s

RECURSIVE RStrip(_)
RStrip(s) ==
    IF s # <<>> /\ s[Len(s)] = " " THEN RStrip(SubSeq(s, 1, Len(s) - 1)) ELSE s

\* str.strip()
Strip(s) == RStrip(LStrip(s))

\* str(value) of a cell: NaN prints as "nan", a text is itself.
Str(v) == IF v = NaN THEN <<"n", "a", "n">> ELSE v

\* pd.isna(value)
IsNa(v) == v = NaN

\* the digit value of one character
DigitVal(c) == Code(c) - 48

IsDigits(s) == s # <<>> /\ \A i \in DOMAIN s : s[i] \in Digits

\* int(s) for a text of decimal digits
RECURSIVE DigitsToInt(_)
DigitsToInt(s) ==
    IF s = <<>> THEN 0
    ELSE 10 * DigitsToInt(SubSeq(s, 1, Len(s) - 1)) + DigitVal(s[Len(s)])

\* Python's s < t on str: lexicographic by code point.
RECURSIVE TextLess(_, _)
TextLess(s, t) ==
    IF s = <<>> THEN t # <<>>
    ELSE IF t = <<>> THEN FALSE
    ELSE IF Code(s[1]) # Code(t[1]) THEN Code(s[1]) < Code(t[1])
    ELSE TextLess(Tail(s), Tail(t))

\* Order of one sort column under DataFrame.sort_values(ascending=True):
\* texts by code point, missing values last.
CellLess(a, b) ==
    IF a = NaN THEN FALSE
    ELSE IF b = NaN THEN TRUE
    ELSE TextLess(a, b)

\* Lexicographic order of two tuples of sort columns.
RECURSIVE KeyLess(_, _)
KeyLess(k1, k2) ==
    IF k1 = <<>> THEN FALSE
    ELSE IF CellLess(k1[1], k2[1]) THEN TRUE
    ELSE IF CellLess(k2[1], k1[1]) THEN FALSE
    ELSE KeyLess(Tail(k1), Tail(k2))

\* Insert pair p = <<key, row>> after every pair whose key is not greater:
\* the insertion step of a stable sort.
RECURSIVE InsertStable(_, _)
InsertStable(sorted, p) ==
    IF sorted = <<>> THEN <<p>>
    ELSE IF KeyLess(p[1], sorted[1][1]) THEN <<p>> \o sorted
    ELSE <<sorted[1]>> \o InsertStable(Tail(sorted), p)

RECURSIVE SortPairs(_)
SortPairs(pairs) ==
    IF pairs = <<>> THEN <<>>
    ELSE InsertStable(SortPairs(SubSeq(pairs, 1, Len(pairs) - 1)), pairs[Len(pairs)])

Range(seq) == {seq[i] : i \in DOMAIN seq}


(***************************************************************************)
(* scripts/build_albums_canon.py                                           *)
(***************************************************************************)

MbCols == <<"musicbrainz_id", "mb_release_date_iso", "mb_release_year", "mb_country">>

\* base_cols of load_existing: the schema of data/albums_canon.csv.
BaseCols ==
    {"year", "artist", "album", "label", "sales_raw", "certification", "country",
     "shipments_units", "list_source", "source_url", "musicbrainz_id",
     "mb_release_date_iso", "mb_release_year", "mb_country", "added_on"}

\* The columns merge_with_existing compares, in the order of its loop.
CoreCols ==
    <<"year", "label", "sales_raw", "shipments_units", "certification", "country",
      "list_source", "source_url">>

\* date.today().isoformat() for day d of the model's calendar (d in 1..9).
TodayStr(d) ==
    <<"2", "0", "2", "6", "-", "0", "1", "-", "0">>
        \o <<CHOOSE c \in Digits : DigitVal(c) = d>>

\* pandas.read_csv on one text cell: an empty cell (or the literal nan) is NaN.
ReadCell(c) == IF c = EMPTY \/ c = <<"n", "a", "n">> THEN NaN ELSE c

\* DataFrame.to_csv on one cell: NaN is written as an empty cell.
WriteCell(v) == IF v = NaN THEN EMPTY ELSE v

\* pd.read_csv(path): shipments_units is an integer column, the rest are text.
ReadCsv(file) ==
    [i \in DOMAIN file |->
        [col \in DOMAIN file[i] |->
            IF col = "shipments_units" THEN file[i][col] ELSE ReadCell(file[i][col])]]

\* df.to_csv(path, index=False)
WriteCsv(df) ==
    [i \in DOMAIN df |->
        [col \in DOMAIN df[i] |->
            IF col = "shipments_units" THEN df[i][col] ELSE WriteCell(df[i][col])]]

RECURSIVE DropToDigit(_)
DropToDigit(t) == IF t # <<>> /\ t[1] \notin Digits THEN DropToDigit(Tail(t)) ELSE t

RECURSIVE TakeDigits(_)
TakeDigits(t) ==
    IF t # <<>> /\ t[1] \in Digits THEN <<t[1]>> \o TakeDigits(Tail(t)) ELSE <<>>

\* extract_units: the first run of digits, as an integer, else 0.  (The
\* thousands separators and the "million" / "platinum" heuristics need
\* characters that no text of the model contains.)
extract_units(text) ==
    IF text = NaN THEN 0
    ELSE LET run == TakeDigits(DropToDigit(Lower(Strip(text))))
         IN  IF run = <<>> THEN 0 ELSE DigitsToInt(run)

\* key_from_row / key_tuple: (str(artist).strip().lower(), str(album).strip().lower())
key_from_row(row) ==
    <<Lower(Strip(Str(row.artist))), Lower(Strip(Str(row.album)))>>

\* {k: i for i, k in enumerate(frame["_key"])}: a later row replaces an earlier
\* one with the same key, so a key maps to its LAST index.
\* Mutant of KeyInMap: no key is found in the map.
KeyInMap_Never(frame, k) == FALSE

KeyInMap(frame, k) == \E i \in DOMAIN frame : key_from_row(frame[i]) = k

MapIndex(frame, k) ==
    CHOOSE i \in DOMAIN frame :
        /\ key_from_row(frame[i]) = k
        /\ \A j \in DOMAIN frame : key_from_row(frame[j]) = k => j <= i

\* One row of the seed frame built from data/best_selling_albums_enriched.csv.
SeedCell(c) == IF IsNa(ReadCell(c)) THEN EMPTY ELSE ReadCell(c)

SeedRow(raw, today) ==
    [artist              |-> SeedCell(raw.artist),
     album               |-> SeedCell(raw.album),
     year                |-> SeedCell(raw.release_year_hint),
     label               |-> EMPTY,
     sales_raw           |-> SeedCell(raw.units_sold_raw),
     certification       |-> EMPTY,
     country             |-> EMPTY,
     shipments_units     |-> extract_units(SeedCell(raw.units_sold_raw)),
     list_source         |-> <<"s">>,
     source_url          |-> EMPTY,
     musicbrainz_id      |-> SeedCell(raw.musicbrainz_id),
     mb_release_date_iso |-> SeedCell(raw.mb_release_date_iso),
     mb_release_year     |-> SeedCell(raw.mb_release_year),
     mb_country          |-> SeedCell(raw.mb_country),
     added_on            |-> TodayStr(today)]

\* The inner loop of the seed merge: fill the MusicBrainz columns of an
\* existing row that are empty from the seed row.
RECURSIVE SeedFill(_, _, _)
SeedFill(old, seed, c) ==
    IF c > Len(MbCols) THEN old
    ELSE LET col     == MbCols[c]
             old_val == Strip(Str(old[col]))
             new_val == Strip(Str(seed[col]))
             filled  == IF old_val = EMPTY /\ new_val # EMPTY
                        THEN [old EXCEPT ![col] = new_val]
                        ELSE old
         IN  SeedFill(filled, seed, c + 1)

\* for _, row in seed.iterrows(): ...  `loaded` is the frame as read from the
\* file: existing_keys is computed from it once and never extended.
RECURSIVE SeedLoop(_, _, _, _, _)
SeedLoop(seed, n, loaded, existing, new_rows) ==
    IF n > Len(seed) THEN existing \o new_rows
    ELSE LET row == seed[n]
             k   == key_from_row(row)
         IN  IF Strip(Str(row.artist)) = EMPTY \/ Strip(Str(row.album)) = EMPTY
             THEN SeedLoop(seed, n + 1, loaded, existing, new_rows)
             ELSE IF KeyInMap(loaded, k)
             THEN LET idx == MapIndex(loaded, k)
                  IN  SeedLoop(seed, n + 1, loaded,
                               [existing EXCEPT ![idx] = SeedFill(existing[idx], row, 1)],
                               new_rows)
             ELSE SeedLoop(seed, n + 1, loaded, existing, Append(new_rows, row))

\* load_existing(path): the canon file as read by pandas, with the manual
\* seed merged in.
load_existing(file, seed_file, today) ==
    LET loaded == ReadCsv(file)
        seed   == [i \in DOMAIN seed_file |-> SeedRow(seed_file[i], today)]
    IN  SeedLoop(seed, 1, loaded, loaded, <<>>)

\* The indices of `raw` whose key is k (one group of raw.groupby("_key")).
GroupOf(raw, k) == {i \in DOMAIN raw : key_from_row(raw[i]) = k}

\* Mutant of PickBest: the first row of the group is taken.
PickBest_First(raw, grp) == raw[CHOOSE i \in grp : \A j \in grp : i <= j]

\* grp.sort_values(by=["shipments_units"], ascending=False).iloc[0]: the row
\* with the highest shipments_units, the first such row on a tie.
PickBest(raw, grp) ==
    LET i == CHOOSE i \in grp :
                 \A j \in grp :
                     \/ raw[j].shipments_units < raw[i].shipments_units
                     \/ raw[j].shipments_units = raw[i].shipments_units /\ i <= j
    IN  raw[i]

\* The chosen rows of the groups from index n on, each paired with its key.
RECURSIVE GroupPicks(_, _)
GroupPicks(raw, n) ==
    IF n > Len(raw) THEN <<>>
    ELSE LET k == key_from_row(raw[n])
         IN  IF \E j \in 1..(n - 1) : key_from_row(raw[j]) = k
             THEN GroupPicks(raw, n + 1)
             ELSE <<<<k, PickBest(raw, GroupOf(raw, k))>>>> \o GroupPicks(raw, n + 1)

\* dedupe_wiki_albums(raw): one row per key, groups in ascending key order
\* (groupby sorts the keys).
dedupe_wiki_albums(raw) ==
    IF raw = <<>> THEN raw
    ELSE LET picks == SortPairs(GroupPicks(raw, 1))
         IN  [i \in DOMAIN picks |-> picks[i][2]]

\* Mutant of TextOverwrites: the test for a non-empty fresh value is lost.
TextOverwrites_AnyDifferent(old_val, new_val) == Str(new_val) # Str(old_val)

\* if str(new_val).strip() and str(new_val) != str(old_val)
TextOverwrites(old_val, new_val) ==
    Strip(Str(new_val)) # EMPTY /\ Str(new_val) # Str(old_val)

\* Mutant of UnitsOverwrites: the fresh figure replaces any other figure.
UnitsOverwrites_AnyDifferent(old_units, new_units) == new_units # old_units

\* `if new_units > old_units` of the shipments_units branch
UnitsOverwrites(old_units, new_units) == new_units > old_units

\* One pass of the column loop of merge_with_existing on the matched row:
\* acc = [row |-> the existing row so far, changed |-> the flag].
RECURSIVE MergeCols(_, _, _)
MergeCols(acc, fresh, c) ==
    IF c > Len(CoreCols) THEN acc
    ELSE LET col == CoreCols[c]
             old == acc.row[col]
             new == fresh[col]
         IN  IF col = "shipments_units"
             THEN IF UnitsOverwrites(old, new)
                  THEN MergeCols([row |-> [acc.row EXCEPT ![col] = new], changed |-> TRUE],
                                 fresh, c + 1)
                  ELSE MergeCols(acc, fresh, c + 1)
             ELSE LET old_val == IF IsNa(old) THEN EMPTY ELSE old
                      new_val == IF IsNa(new) THEN EMPTY ELSE new
                  IN  IF TextOverwrites(old_val, new_val)
                      THEN MergeCols([row |-> [acc.row EXCEPT ![col] = new_val],
                                      changed |-> TRUE], fresh, c + 1)
                      ELSE MergeCols(acc, fresh, c + 1)

\* Mutant of BumpAddedOn: a changed row keeps its old stamp.
BumpAddedOn_Never(acc, today) == acc.row

\* The "changed" branch: bump added_on of a materially changed row.
BumpAddedOn(acc, today) ==
    IF acc.changed THEN [acc.row EXCEPT !.added_on = TodayStr(today)] ELSE acc.row

\* The "brand new album row" branch: add the enrichment / timestamp columns the
\* fresh row lacks, and stamp added_on when it is empty.
NewCanonRow(fresh, today) ==
    LET full == [col \in BaseCols |-> IF col \in DOMAIN fresh THEN fresh[col] ELSE EMPTY]
    IN  IF Strip(Str(full.added_on)) = EMPTY
        THEN [full EXCEPT !.added_on = TodayStr(today)]
        ELSE full

\* existing.sort_values(by=["artist", "year", "album"], ignore_index=True)
SortCanon(df) ==
    LET pairs  == [i \in DOMAIN df |-> <<<<df[i].artist, df[i].year, df[i].album>>, df[i]>>]
        sorted == SortPairs(pairs)
    IN  [i \in DOMAIN sorted |-> sorted[i][2]]

\* for _, row in fresh.iterrows(): ...  `orig` is the frame the key map was
\* built from; st carries the frame and the counters.
RECURSIVE MergeLoop(_, _, _, _, _)
MergeLoop(fresh, n, orig, st, today) ==
    IF n > Len(fresh) THEN st
    ELSE LET row == fresh[n]
             k   == key_from_row(row)
         IN  IF KeyInMap(orig, k)
             THEN LET idx == MapIndex(orig, k)
                      acc == MergeCols([row |-> st.existing[idx], changed |-> FALSE], row, 1)
                  IN  MergeLoop(fresh, n + 1, orig,
                          [st EXCEPT !.existing[idx] = BumpAddedOn(acc, today),
                                     !.updated_count = @ + (IF acc.changed THEN 1 ELSE 0),
                                     !.unchanged_count = @ + (IF acc.changed THEN 0 ELSE 1)],
                          today)
             ELSE MergeLoop(fresh, n + 1, orig,
                      [st EXCEPT !.new_rows = Append(@, NewCanonRow(row, today))],
                      today)

\* merge_with_existing(existing, fresh):
\* (merged_df, new_count, updated_count, unchanged_count)
merge_with_existing(existing, fresh, today) ==
    LET st == MergeLoop(fresh, 1, existing,
                        [existing |-> existing, new_rows |-> <<>>,
                         updated_count |-> 0, unchanged_count |-> 0], today)
    IN  [df              |-> SortCanon(st.existing \o st.new_rows),
         new_count       |-> Len(st.new_rows),
         updated_count   |-> st.updated_count,
         unchanged_count |-> st.unchanged_count]

(***************************************************************************)
(* MusicBrainz enrichment (build_albums_canon.py).  The server is an       *)
(* external source: each call gets one reply chosen by the environment.    *)
(***************************************************************************)

\* Python's None
None == <<"None">>

\* What one call of the release-group search can meet:
\*   found       a release group with an id
\*   no_match    an empty "release-groups" list, or a best match without id
\*   http_error  sess.get / raise_for_status / r.json() raises
\*   bad_payload the JSON is not an object, so data.get(...) raises
SearchReplies == {"found", "no_match", "http_error", "bad_payload"}

\* the id MusicBrainz returns
MBID == <<"m">>

\* mb_search_release_group(sess, album, artist): the value it returns, or the
\* exception that leaves it.
mb_search_release_group(album, artist, reply) ==
    IF album = EMPTY \/ artist = EMPTY THEN [raised |-> FALSE, value |-> None]
    ELSE IF reply = "http_error" THEN [raised |-> FALSE, value |-> None]
    ELSE IF reply = "bad_payload" THEN [raised |-> TRUE, value |-> None]
    ELSE IF reply = "no_match" THEN [raised |-> FALSE, value |-> None]
    ELSE [raised |-> FALSE, value |-> MBID]

\* Mutant of TryLookup: without the except clause an exception of the search
\* leaves the loop and ends the run.
TryLookup_NoCatch(res) == [mbid |-> res.value, propagates |-> res.raised]

\* try: mbid = mb_search_release_group(...)  except Exception: mbid = None
\* `propagates` says whether an exception leaves the loop of enrich_mbids.
TryLookup(res) ==
    [mbid |-> IF res.raised THEN None ELSE res.value, propagates |-> FALSE]

\* mask of enrich_mbids: musicbrainz_id is NaN or blank
MissingMbid(row) ==
    IsNa(row.musicbrainz_id) \/ Strip(Str(row.musicbrainz_id)) = EMPTY

\* for idx, row in candidates.iterrows(): ...   st carries the frame, the
\* counters, the indices handed to the search, and whether the loop was left
\* by an exception.
RECURSIVE MbidLoop(_, _, _, _)
MbidLoop(df, n, replies, st) ==
    IF n > Len(df) \/ st.aborted THEN st
    ELSE IF ~MissingMbid(df[n]) THEN MbidLoop(df, n + 1, replies, st)
    ELSE LET album  == Strip(Str(df[n].album))
             artist == Strip(Str(df[n].artist))
         IN  IF album = EMPTY \/ artist = EMPTY
             THEN MbidLoop(df, n + 1, replies, st)
             ELSE LET got == TryLookup(mb_search_release_group(album, artist, replies[n]))
                      st1 == [st EXCEPT !.calls = Append(@, n)]
                  IN  IF got.propagates
                      THEN [st1 EXCEPT !.aborted = TRUE]
                      ELSE IF got.mbid # None /\ got.mbid # EMPTY
                      THEN MbidLoop(df, n + 1, replies,
                               [st1 EXCEPT !.df[n].musicbrainz_id = got.mbid,
                                           !.filled = @ + 1])
                      ELSE MbidLoop(df, n + 1, replies, [st1 EXCEPT !.failed = @ + 1])

\* enrich_mbids(sess, df): (df, num_filled, num_failed)
enrich_mbids(df, replies) ==
    MbidLoop(df, 1, replies,
             [df |-> df, filled |-> 0, failed |-> 0, calls |-> <<>>, aborted |-> FALSE])

\* What one release-group details call can meet:
\*   full        first-release-date YYYY-MM-DD and a release with a country
\*   year_only   first-release-date YYYY and no release with a country
\*   http_error  the request or its JSON raises: (None, None)
DetailReplies == {"full", "year_only", "http_error"}

FullDate == <<"1", "9", "8", "2", "-", "1", "1", "-", "3", "0">>

YearOnly == <<"1", "9", "8", "2">>

CountryUS == <<"U", "S">>

\* mb_get_release_group_details(sess, mbid): (release_date_iso, country)
mb_get_release_group_details(mbid, reply) ==
    IF mbid = EMPTY THEN <<None, None>>
    ELSE IF reply = "http_error" THEN <<None, None>>
    ELSE IF reply = "year_only" THEN <<YearOnly, None>>
    ELSE <<FullDate, CountryUS>>

\* s.split("-")[0]
RECURSIVE SplitFirst(_)
SplitFirst(s) ==
    IF s = <<>> \/ s[1] = "-" THEN <<>> ELSE <<s[1]>> \o SplitFirst(Tail(s))

\* needs_details(row) of enrich_mb_details
needs_details(row) ==
    LET mbid == Strip(Str(row.musicbrainz_id))
    IN  IF mbid = EMPTY THEN FALSE
        ELSE \/ Strip(Str(row.mb_release_date_iso)) = EMPTY
             \/ Strip(Str(row.mb_country)) = EMPTY

\* the assignments of one successful details lookup
FillDetails(row, rel_date_iso, country) ==
    LET r1 == IF rel_date_iso # None
              THEN [row EXCEPT !.mb_release_date_iso = rel_date_iso,
                               !.mb_release_year = SplitFirst(rel_date_iso)]
              ELSE row
    IN  IF country # None THEN [r1 EXCEPT !.mb_country = country] ELSE r1

RECURSIVE DetailLoop(_, _, _, _)
DetailLoop(df, n, replies, st) ==
    IF n > Len(df) THEN st
    ELSE IF ~needs_details(df[n]) THEN DetailLoop(df, n + 1, replies, st)
    ELSE LET mbid == Strip(Str(df[n].musicbrainz_id))
             got  == mb_get_release_group_details(mbid, replies[n])
             st1  == [st EXCEPT !.calls = Append(@, n)]
         IN  IF got[1] # None \/ got[2] # None
             THEN DetailLoop(df, n + 1, replies,
                      [st1 EXCEPT !.df[n] = FillDetails(@, got[1], got[2]),
                                  !.filled = @ + 1])
             ELSE DetailLoop(df, n + 1, replies, [st1 EXCEPT !.failed = @ + 1])

\* enrich_mb_details(sess, df): (df, num_filled, num_failed)
enrich_mb_details(df, replies) ==
    DetailLoop(df, 1, replies, [df |-> df, filled |-> 0, failed |-> 0, calls |-> <<>>])

(***************************************************************************)
(* scripts/build_albums_us_1m.py                                           *)
(***************************************************************************)

\* The columns of otd/albums_us_1m.csv (load_existing).
UsCols ==
    {"year", "artist", "album", "label", "shipments_raw", "shipments_units",
     "certification", "source_url", "musicbrainz_id", "mb_release_date_iso",
     "mb_release_year", "mb_country"}

\* The text columns fetch_album_tables keeps of a page's table.
UsKeep == {"year", "artist", "album", "label", "shipments_raw", "certification"}

\* The columns merge_albums compares, in the order of its loop.
UsMergeCols ==
    <<"year", "label", "shipments_raw", "shipments_units", "certification", "source_url">>

WIKI_URL == <<"/", "U">>

\* str(n) of a non-negative integer
RECURSIVE IntToText(_)
IntToText(n) ==
    LET d == CHOOSE c \in Digits : DigitVal(c) = n % 10
    IN  IF n < 10 THEN <<d>> ELSE IntToText(n \div 10) \o <<d>>

\* extract_units of build_albums_us_1m.py: the first run of digits of the
\* stripped text, else 0 (no text of the model has a thousands separator).
us_extract_units(text) ==
    IF text = NaN THEN 0
    ELSE LET run == TakeDigits(DropToDigit(Strip(text)))
         IN  IF run = <<>> THEN 0 ELSE DigitsToInt(run)

\* One table of the page after the clean-up of fetch_album_tables: cells
\* stripped, shipments_units extracted, rows without artist or album dropped.
RECURSIVE CleanTable(_)
CleanTable(raw) ==
    IF raw = <<>> THEN <<>>
    ELSE LET txt == [col \in UsKeep |-> Strip(Str(raw[1][col]))]
             row == [col \in UsKeep \cup {"shipments_units"} |->
                        IF col = "shipments_units" THEN us_extract_units(txt.shipments_raw)
                        ELSE txt[col]]
         IN  (IF row.artist # EMPTY /\ row.album # EMPTY THEN <<row>> ELSE <<>>)
                 \o CleanTable(Tail(raw))

\* pd.concat(frames): the cleaned tables of the page, one after the other.
RECURSIVE ConcatTables(_)
ConcatTables(tables) ==
    IF tables = <<>> THEN <<>>
    ELSE CleanTable(tables[1]) \o ConcatTables(Tail(tables))

\* fetch_album_tables(sess): RuntimeError when no table has an album row, else
\* the combined frame with its source_url column.
fetch_album_tables(tables) ==
    LET combined == ConcatTables(tables)
    IN  [raised |-> combined = <<>>,
         df     |-> [i \in DOMAIN combined |->
                        [col \in DOMAIN combined[i] \cup {"source_url"} |->
                            IF col = "source_url" THEN WIKI_URL ELSE combined[i][col]]]]

\* load_existing(path) of build_albums_us_1m.py: the file as read_csv reads
\* it, or an empty frame when there is no file (the file always has the
\* enrichment columns, so none is added).
us_load_existing(file) == ReadCsv(file)

\* str(v) of a cell of column col
UsStr(col, v) == IF col = "shipments_units" THEN IntToText(v) ELSE Str(v)

\* The column loop of merge_albums on the matched row.
RECURSIVE UsMergeColumns(_, _, _)
UsMergeColumns(acc, fresh, c) ==
    IF c > Len(UsMergeCols) THEN acc
    ELSE LET col     == UsMergeCols[c]
             old     == acc.row[col]
             new     == fresh[col]
             old_val == IF col # "shipments_units" /\ IsNa(old) THEN EMPTY ELSE old
             new_val == IF col # "shipments_units" /\ IsNa(new) THEN EMPTY ELSE new
         IN  IF /\ Strip(UsStr(col, new_val)) # EMPTY
                /\ UsStr(col, new_val) # UsStr(col, old_val)
             THEN UsMergeColumns([row |-> [acc.row EXCEPT ![col] = new_val],
                                  changed |-> TRUE], fresh, c + 1)
             ELSE UsMergeColumns(acc, fresh, c + 1)

\* The "new row" branch of merge_albums: the fresh row with empty enrichment
\* columns.
NewUsRow(fresh) ==
    [col \in UsCols |-> IF col \in DOMAIN fresh THEN fresh[col] ELSE EMPTY]

\* existing.sort_values(by=["year", "artist", "album"], ignore_index=True)
SortUs(df) ==
    LET pairs  == [i \in DOMAIN df |-> <<<<df[i].year, df[i].artist, df[i].album>>, df[i]>>]
        sorted == SortPairs(pairs)
    IN  [i \in DOMAIN sorted |-> sorted[i][2]]

\* for _, row in fresh.iterrows(): ...  `orig` is the frame existing_map was
\* built from: rows appended by the loop are not in it.
RECURSIVE UsMergeLoop(_, _, _, _)
UsMergeLoop(fresh, n, orig, st) ==
    IF n > Len(fresh) THEN st
    ELSE LET row == fresh[n]
             k   == key_from_row(row)
         IN  IF KeyInMap(orig, k)
             THEN LET idx == MapIndex(orig, k)
                      acc == UsMergeColumns([row |-> st.existing[idx], changed |-> FALSE],
                                            row, 1)
                  IN  UsMergeLoop(fresh, n + 1, orig,
                          [st EXCEPT !.existing[idx] = acc.row,
                                     !.updated_count = @ + (IF acc.changed THEN 1 ELSE 0),
                                     !.unchanged_count = @ + (IF acc.changed THEN 0 ELSE 1)])
             ELSE UsMergeLoop(fresh, n + 1, orig,
                      [st EXCEPT !.new_rows = Append(@, NewUsRow(row))])

\* merge_albums(existing, fresh):
\* (merged, updated_count, unchanged_count, len(new_rows))
merge_albums(existing, fresh) ==
    LET st == UsMergeLoop(fresh, 1, existing,
                          [existing |-> existing, new_rows |-> <<>>,
                           updated_count |-> 0, unchanged_count |-> 0])
    IN  [df              |-> SortUs(st.existing \o st.new_rows),
         updated_count   |-> st.updated_count,
         unchanged_count |-> st.unchanged_count,
         new_count       |-> Len(st.new_rows)]

(***************************************************************************)
(* scripts/add_albums_to_calendar_index.py                                 *)
(***************************************************************************)

\* The schema of data/calendar_index.csv.
CAL_BASE_COLS ==
    {"key_mmdd", "year", "iso_date", "fact_domain", "fact_category", "fact_tags",
     "title", "byline", "role", "work_type", "summary_template", "source_url",
     "source_system", "source_id", "country", "language", "extra", "used_on",
     "use_count", "added_on"}

\* pd.to_numeric(df["use_count"], errors="coerce").fillna(0).astype(int), on
\* one cell.
CoerceUseCount(c) == IF c # NaN /\ IsDigits(c) THEN DigitsToInt(c) ELSE 0

\* load_calendar_index(path): the file as read_csv reads it, use_count as int.
load_calendar_index(file) ==
    [i \in DOMAIN file |->
        [col \in CAL_BASE_COLS |->
            IF col = "use_count" THEN CoerceUseCount(ReadCell(file[i][col]))
            ELSE ReadCell(file[i][col])]]

\* merged.to_csv(args.calendar_path, index=False)
WriteCalendarCsv(df) ==
    [i \in DOMAIN df |->
        [col \in CAL_BASE_COLS |->
            IF col = "use_count" THEN IntToText(df[i][col]) ELSE WriteCell(df[i][col])]]

\* load_albums_delta(path): the file as read_csv reads it (shipments_units is
\* an integer column).
load_albums_delta(file) == ReadCsv(file)

\* int(v) of a cell: its value, or that it raises.  A missing cell is the
\* float NaN, a text is stripped and may carry a minus sign.
PyInt(v) ==
    IF v = NaN THEN [ok |-> FALSE, val |-> 0]
    ELSE LET t == Strip(v)
         IN  IF IsDigits(t) THEN [ok |-> TRUE, val |-> DigitsToInt(t)]
             ELSE IF t # <<>> /\ t[1] = "-" /\ IsDigits(Tail(t))
             THEN [ok |-> TRUE, val |-> 0 - DigitsToInt(Tail(t))]
             ELSE [ok |-> FALSE, val |-> 0]

\* f"{n:02d}"
Format02d(n) ==
    IF n < 0 THEN <<"-">> \o IntToText(0 - n)
    ELSE IF n < 10 THEN <<"0">> \o IntToText(n)
    ELSE IntToText(n)

\* s.split("-")
RECURSIVE SplitDash(_)
SplitDash(s) ==
    LET head == SplitFirst(s)
    IN  IF Len(head) = Len(s) THEN <<s>>
        ELSE <<head>> \o SplitDash(SubSeq(s, Len(head) + 2, Len(s)))

\* make_summary_template(title, byline, iso_date, sales_raw, shipments_units).
\* No text of the model has a citation bracket, and the units of the model
\* are below 1000, so re.sub and the thousands separators change nothing.
make_summary_template(title, byline, iso_date, sales_raw, shipments_units) ==
    LET year         == IF Len(iso_date) >= 4 THEN SubSeq(iso_date, 1, 4) ELSE EMPTY
        sales_clean  == Strip(Str(sales_raw))
        units        == shipments_units
        sales_phrase == IF sales_clean # EMPTY THEN sales_clean
                        ELSE IF units > 0 THEN IntToText(units)
                        ELSE <<"m", "i", "l", "l", "i", "o", "n", "s", " ", "o", "f">>
        platinum_x   == IF units > 0 THEN units \div 1000000 ELSE 0
        base         == <<"O", "n", " ", "t", "h", "i", "s", " ", "d", "a", "y", " ", "i", "n", " ">> \o year
                        \o <<",", " ", "t", "h", "e", " ", "a", "l", "b", "u", "m", " ", "'">> \o title \o <<"'">>
                        \o (IF byline # EMPTY THEN <<" ", "b", "y", " ">> \o byline ELSE <<>>)
                        \o <<" ", "w", "a", "s", " ", "r", "e", "l", "e", "a", "s", "e", "d", ".">>
        sales_sentence == <<" ", "T", "o", " ", "d", "a", "t", "e", ",", " ", "o", "v", "e", "r", " ">> \o sales_phrase
                          \o <<" ", "c", "o", "p", "i", "e", "s", " ", "h", "a", "v", "e", " ", "b", "e", "e", "n", " ", "s", "o", "l", "d", ".">>
        platinum_sentence ==
            IF platinum_x > 0
            THEN <<" ", "T", "h", "i", "s", " ", "m", "a", "k", "e", "s", " ", "i", "t", " ", "a", " ">> \o IntToText(platinum_x)
                 \o <<"x", " ", "p", "l", "a", "t", "i", "n", "u", "m", " ", "s", "e", "l", "l", "e", "r", ".">>
            ELSE <<>>
    IN  Strip(base \o sales_sentence \o platinum_sentence)

\* The body of the loop of build_album_calendar_rows for one delta row r:
\* whether the row is skipped, and the calendar row it becomes.
AlbumCalendarRow(r) ==
    LET iso_date == Strip(Str(r.release_date))
        title    == Strip(Str(r.title))
        byline   == Strip(Str(r.byline))
        parts    == SplitDash(iso_date)
        year_int == PyInt(parts[1])
        mm_col   == PyInt(r.month)
        dd_col   == PyInt(r.day)
        mm_iso   == IF Len(parts) >= 2 THEN PyInt(parts[2]) ELSE [ok |-> FALSE, val |-> 0]
        dd_iso   == IF Len(parts) >= 3 THEN PyInt(parts[3]) ELSE [ok |-> FALSE, val |-> 0]
        from_col == mm_col.ok /\ dd_col.ok
        mm_int   == IF from_col THEN mm_col.val ELSE mm_iso.val
        dd_int   == IF from_col THEN dd_col.val ELSE dd_iso.val
    IN  [skip |-> \/ iso_date = EMPTY
                  \/ title = EMPTY
                  \/ ~from_col /\ ~(mm_iso.ok /\ dd_iso.ok),
         row  |-> [key_mmdd         |-> Format02d(mm_int) \o Format02d(dd_int),
                   year             |-> IF year_int.ok THEN IntToText(year_int.val) ELSE EMPTY,
                   iso_date         |-> iso_date,
                   fact_domain      |-> <<"m", "u", "s", "i", "c">>,
                   fact_category    |-> <<"a", "l", "b", "u", "m", "_", "r", "e", "l", "e", "a", "s", "e">>,
                   fact_tags        |-> <<"m", "u", "s", "i", "c", ";", "a", "l", "b", "u", "m", ";", "b", "e", "s", "t", "_", "s", "e", "l", "l", "i", "n", "g">>,
                   title            |-> title,
                   byline           |-> byline,
                   role             |-> <<"a", "r", "t", "i", "s", "t">>,
                   work_type        |-> <<"a", "l", "b", "u", "m">>,
                   summary_template |-> make_summary_template(title, byline, iso_date,
                                            r.sales_raw, r.shipments_units),
                   source_url       |-> Strip(Str(r.source_url)),
                   source_system    |-> <<"a", "l", "b", "u", "m", "s", "_", "c", "a", "n", "o", "n">>,
                   source_id        |-> <<"a", "l", "b", "u", "m", ":", ":">> \o iso_date
                                        \o <<":", ":">> \o Strip(Lower(title))
                                        \o <<":", ":">> \o Strip(Lower(byline)),
                   country          |-> EMPTY,
                   language         |-> <<"e", "n">>,
                   extra            |-> EMPTY,
                   used_on          |-> EMPTY,
                   use_count        |-> 0,
                   added_on         |-> Strip(Str(r.added_on))]]

\* build_album_calendar_rows(delta)
RECURSIVE build_album_calendar_rows(_)
build_album_calendar_rows(delta) ==
    IF delta = <<>> THEN <<>>
    ELSE LET r == AlbumCalendarRow(delta[1])
         IN  (IF r.skip THEN <<>> ELSE <<r.row>>) \o build_album_calendar_rows(Tail(delta))

\* key_tuple(row) of merge_calendar
key_tuple(row) ==
    <<Lower(Strip(Str(row.work_type))), Strip(Str(row.iso_date)),
      Lower(Strip(Str(row.title))), Lower(Strip(Str(row.byline)))>>

\* Mutant of IsNewKey: every new row is appended.
IsNewKey_Always(k, existing_keys) == TRUE

\* `if k in existing_keys: continue`: the rows that go on to to_append
IsNewKey(k, existing_keys) == k \notin existing_keys

\* for idx, row in new_rows.iterrows(): ...  the rows of to_append, in order.
\* existing_keys is the set built before the loop.
RECURSIVE ToAppend(_, _)
ToAppend(new_rows, existing_keys) ==
    IF new_rows = <<>> THEN <<>>
    ELSE (IF IsNewKey(key_tuple(new_rows[1]), existing_keys) THEN <<new_rows[1]>> ELSE <<>>)
             \o ToAppend(Tail(new_rows), existing_keys)

\* existing.sort_values(by=["iso_date", "work_type", "title"], ignore_index=True)
SortCalendar(df) ==
    LET pairs  == [i \in DOMAIN df |->
                      <<<<df[i].iso_date, df[i].work_type, df[i].title>>, df[i]>>]
        sorted == SortPairs(pairs)
    IN  [i \in DOMAIN sorted |-> sorted[i][2]]

\* merge_calendar(existing, new_rows)
merge_calendar(existing, new_rows) ==
    IF new_rows = <<>> THEN existing
    ELSE LET existing_keys == {key_tuple(existing[i]) : i \in DOMAIN existing}
         IN  SortCalendar(existing \o ToAppend(new_rows, existing_keys))

(***************************************************************************)
(* scripts/build_albums_release_delta.py                                   *)
(***************************************************************************)

\* load_albums_canon(path): the canon file as read_csv reads it.
load_albums_canon(file) == ReadCsv(file)

\* is_full_iso_date(value): its result, or that the unpacking of
\* v.split("-") into three names raises ValueError.
is_full_iso_date(value) ==
    IF value = NaN THEN [raised |-> FALSE, value |-> FALSE]
    ELSE LET v == Strip(value)
         IN  IF Len(v) # 10 THEN [raised |-> FALSE, value |-> FALSE]
             ELSE IF v[5] # "-" \/ v[8] # "-" THEN [raised |-> FALSE, value |-> FALSE]
             ELSE LET parts == SplitDash(v)
                  IN  IF Len(parts) # 3 THEN [raised |-> TRUE, value |-> FALSE]
                      ELSE [raised |-> FALSE,
                            value  |-> \A i \in 1..3 : IsDigits(parts[i])]

\* Mutant of AddedToday: every canon row counts as added today.
AddedToday_Always(row, today) == TRUE

\* mask_added_today of build_release_delta
AddedToday(row, today) == Strip(Str(row.added_on)) = TodayStr(today)

\* The dictionary build_release_delta appends for one row of df.
ReleaseDeltaRow(row) ==
    LET rel   == Strip(Strip(Str(row.mb_release_date_iso)))
        parts == SplitDash(rel)
    IN  [work_type       |-> <<"a", "l", "b", "u", "m">>,
         title           |-> Strip(Str(row.album)),
         byline          |-> Strip(Str(row.artist)),
         release_date    |-> rel,
         month           |-> PyInt(parts[2]).val,
         day             |-> PyInt(parts[3]).val,
         extra           |-> EMPTY,
         source_url      |-> Strip(Str(row.source_url)),
         sales_raw       |-> Strip(Str(row.sales_raw)),
         shipments_units |-> row.shipments_units,
         date_source     |-> <<"m", "u", "s", "i", "c", "b", "r", "a", "i", "n", "z", ":", "f", "i", "r", "s", "t", "-", "r", "e", "l", "e", "a", "s", "e", "-", "d", "a", "t", "e">>,
         added_on        |-> Strip(Str(row.added_on))]

\* out_df.sort_values(by=["release_date", "title"], ignore_index=True)
SortDelta(df) ==
    LET pairs  == [i \in DOMAIN df |-> <<<<df[i].release_date, df[i].title>>, df[i]>>]
        sorted == SortPairs(pairs)
    IN  [i \in DOMAIN sorted |-> sorted[i][2]]

\* build_release_delta(canon): the delta frame, or that an exception leaves
\* the function (from is_full_iso_date, or from int(mm) / int(dd)).
build_release_delta(canon, today) ==
    LET added  == SelectSeq(canon, LAMBDA row : AddedToday(row, today))
        dates  == [i \in DOMAIN added |->
                      is_full_iso_date(Strip(Str(added[i].mb_release_date_iso)))]
        full   == {i \in DOMAIN added : dates[i].value}
        RECURSIVE Keep(_)
        Keep(n) == IF n > Len(added) THEN <<>>
                   ELSE (IF n \in full THEN <<added[n]>> ELSE <<>>) \o Keep(n + 1)
        df     == Keep(1)
        ints   == \A i \in DOMAIN df :
                      LET parts == SplitDash(Strip(Strip(Str(df[i].mb_release_date_iso))))
                      IN  PyInt(parts[2]).ok /\ PyInt(parts[3]).ok
    IN  IF added = <<>> THEN [raised |-> FALSE, df |-> <<>>]
        ELSE IF \E i \in DOMAIN added : dates[i].raised THEN [raised |-> TRUE, df |-> <<>>]
        ELSE IF df = <<>> THEN [raised |-> FALSE, df |-> <<>>]
        ELSE IF ~ints THEN [raised |-> TRUE, df |-> <<>>]
        ELSE [raised |-> FALSE,
              df     |-> SortDelta([i \in DOMAIN df |-> ReleaseDeltaRow(df[i])])]

\* delta.to_csv(args.out_path, index=False): month and day are integers.
WriteDeltaCsv(df) ==
    [i \in DOMAIN df |->
        [col \in DOMAIN df[i] |->
            IF col = "shipments_units" THEN df[i][col]
            ELSE IF col \in {"month", "day"} THEN IntToText(df[i][col])
            ELSE WriteCell(df[i][col])]]

(***************************************************************************)
(* scripts/build_calendar_index_songs.py.  The files are read with         *)
(* csv.DictReader: every cell is a text, an empty cell the empty text.     *)
(***************************************************************************)

SONG_SOURCE_SYSTEM == <<"s", "o", "n", "g", "s", "_", "t", "o", "p", "1", "0", "_", "u", "s">>

\* FULL_DATE_RX.match(s): \s*\d{4}-\d{2}-\d{2}\s*
FULL_DATE_RX(s) ==
    LET t == Strip(s)
    IN  /\ Len(t) = 10
        /\ t[5] = "-"
        /\ t[8] = "-"
        /\ \A i \in {1, 2, 3, 4, 6, 7, 9, 10} : t[i] \in Digits

\* the number of days of month m of year y (datetime.date)
DaysInMonth(y, m) ==
    IF m \in {4, 6, 9, 11} THEN 30
    ELSE IF m # 2 THEN 31
    ELSE IF y % 4 = 0 /\ (y % 100 # 0 \/ y % 400 = 0) THEN 29
    ELSE 28

\* parse_full_date(s): the date, or None (ok = FALSE) when the text is no
\* YYYY-MM-DD or date(...) raises ValueError.
parse_full_date(s) ==
    LET t  == Strip(s)
        y  == DigitsToInt(SubSeq(t, 1, 4))
        mm == DigitsToInt(SubSeq(t, 6, 7))
        dd == DigitsToInt(SubSeq(t, 9, 10))
    IN  IF ~FULL_DATE_RX(s) THEN [ok |-> FALSE, year |-> 0, month |-> 0, day |-> 0]
        ELSE IF y >= 1 /\ mm \in 1..12 /\ dd >= 1 /\ dd <= DaysInMonth(y, mm)
        THEN [ok |-> TRUE, year |-> y, month |-> mm, day |-> dd]
        ELSE [ok |-> FALSE, year |-> 0, month |-> 0, day |-> 0]

\* f"{n:04d}"
Format04d(n) ==
    LET t == IntToText(n)
    IN  [i \in 1..(4 - Len(t)) |-> "0"] \o t

\* d.isoformat()
IsoFormat(d) ==
    Format04d(d.year) \o <<"-">> \o Format02d(d.month) \o <<"-">> \o Format02d(d.day)

\* d.strftime("%m-%d")
MonthDay(d) == Format02d(d.month) \o <<"-">> \o Format02d(d.day)

\* peak_val of compute_song_labels: int(float(peak_raw)), None when the
\* cell is empty or float raises ValueError (the model's cells have no
\* decimal point).
PeakVal(peak_raw) ==
    IF peak_raw = EMPTY THEN [ok |-> FALSE, val |-> 0] ELSE PyInt(peak_raw)

\* compute_song_labels(row), as the set of labels of the list it returns
compute_song_labels(row) ==
    LET release  == Strip(row.release_date)
        entry    == Strip(row.entry_date)
        peak     == Strip(row.peak_date)
        peak_raw == Strip(row.peak_position)
        peak_val == PeakVal(peak_raw)
        is_no1   == peak_val.ok /\ peak_val.val = 1
        labels   == (IF FULL_DATE_RX(release) THEN {"release"} ELSE {})
                    \cup (IF FULL_DATE_RX(entry) THEN {"chart_entry"} ELSE {})
                    \cup (IF is_no1 /\ FULL_DATE_RX(peak) THEN {"no1"} ELSE {})
    IN  IF "no1" \in labels /\ "chart_entry" \in labels
        THEN labels \ {"chart_entry"}
        ELSE labels

\* One step of the loop of build_extra_field.
ExtraPart(name, cell) ==
    IF Strip(cell) # EMPTY THEN <<";">> \o name \o <<"=">> \o Strip(cell) ELSE <<>>

\* build_extra_field(row)
build_extra_field(row) ==
    <<"c", "h", "a", "r", "t", "=", "U", "S", " ", "T", "o", "p", " ", "1", "0">>
        \o ExtraPart(<<"r", "e", "l", "e", "a", "s", "e", "_", "d", "a", "t", "e">>, row.release_date)
        \o ExtraPart(<<"e", "n", "t", "r", "y", "_", "d", "a", "t", "e">>, row.entry_date)
        \o ExtraPart(<<"p", "e", "a", "k", "_", "d", "a", "t", "e">>, row.peak_date)
        \o ExtraPart(<<"p", "e", "a", "k", "_", "p", "o", "s", "i", "t", "i", "o", "n">>, row.peak_position)
        \o ExtraPart(<<"d", "a", "t", "e", "_", "s", "o", "u", "r", "c", "e">>, row.date_source)

\* The dictionary build_song_facts appends for song r, date d and tag.
SongFact(r, d, tag, template, today) ==
    [key_mmdd         |-> MonthDay(d),
     year             |-> IntToText(d.year),
     iso_date         |-> IsoFormat(d),
     fact_domain      |-> <<"a", "r", "t", "s">>,
     fact_category    |-> <<"s", "o", "n", "g">>,
     fact_tags        |-> tag,
     title            |-> Strip(r.title),
     byline           |-> Strip(r.byline),
     role             |-> <<"a", "r", "t", "i", "s", "t">>,
     work_type        |-> IF Strip(IF r.work_type = EMPTY THEN <<"s", "o", "n", "g">> ELSE r.work_type) = EMPTY
                          THEN <<"s", "o", "n", "g">>
                          ELSE Strip(IF r.work_type = EMPTY THEN <<"s", "o", "n", "g">> ELSE r.work_type),
     summary_template |-> template,
     source_url       |-> Strip(r.source_url),
     source_system    |-> SONG_SOURCE_SYSTEM,
     source_id        |-> EMPTY,
     country          |-> <<"U", "S">>,
     language         |-> <<"e", "n">>,
     extra            |-> build_extra_field(r),
     used_on          |-> EMPTY,
     use_count        |-> <<"0">>,
     added_on         |-> TodayStr(today)]

\* f'On this day in {year}, "{title}" by {byline}'
OnThisDay(r, d) ==
    <<"O", "n", " ", "t", "h", "i", "s", " ", "d", "a", "y", " ", "i", "n", " ">> \o IntToText(d.year) \o <<",", " ", "\"">> \o Strip(r.title)
        \o <<"\"", " ", "b", "y", " ">> \o Strip(r.byline)

\* The facts build_song_facts appends for one row of the songs file.
FactsOfSong(r, today) ==
    LET peak_pos  == Strip(r.peak_position)
        labels    == compute_song_labels(r)
        release_d == parse_full_date(r.release_date)
        entry_d   == parse_full_date(r.entry_date)
        peak_d    == parse_full_date(r.peak_date)
        release_t == OnThisDay(r, release_d) \o <<" ", "w", "a", "s", " ", "r", "e", "l", "e", "a", "s", "e", "d", ".">>
                     \o (IF peak_pos # EMPTY
                         THEN <<" ", "I", "t", " ", "l", "a", "t", "e", "r", " ", "r", "e", "a", "c", "h", "e", "d", " ", "#">> \o peak_pos \o <<" ", "o", "n", " ", "t", "h", "e", " ", "U", "S", " ", "c", "h", "a", "r", "t", "s", ".">>
                         ELSE <<>>)
        entry_t   == OnThisDay(r, entry_d) \o <<" ", "e", "n", "t", "e", "r", "e", "d", " ", "t", "h", "e", " ", "U", "S", " ", "T", "o", "p", " ", "1", "0", ".">>
                     \o (IF peak_pos # EMPTY
                         THEN <<" ", "I", "t", " ", "w", "e", "n", "t", " ", "o", "n", " ", "t", "o", " ", "r", "e", "a", "c", "h", " ", "#">> \o peak_pos \o <<" ", "o", "n", " ", "t", "h", "e", " ", "c", "h", "a", "r", "t", ".">>
                         ELSE <<>>)
        no1_t     == OnThisDay(r, peak_d) \o <<" ", "h", "i", "t", " ", "n", "u", "m", "b", "e", "r", " ", "o", "n", "e", " ", "o", "n", " ", "t", "h", "e", " ", "U", "S", " ", "T", "o", "p", " ", "1", "0", " ", "c", "h", "a", "r", "t", ".">>
    IN  (IF "release" \in labels /\ release_d.ok
         THEN <<SongFact(r, release_d, <<"r", "e", "l", "e", "a", "s", "e">>, release_t, today)>> ELSE <<>>)
        \o (IF "chart_entry" \in labels /\ entry_d.ok
            THEN <<SongFact(r, entry_d, <<"c", "h", "a", "r", "t", "_", "e", "n", "t", "r", "y">>, entry_t, today)>> ELSE <<>>)
        \o (IF "no1" \in labels /\ peak_d.ok
            THEN <<SongFact(r, peak_d, <<"n", "o", "1">>, no1_t, today)>> ELSE <<>>)

\* build_song_facts(rows)
RECURSIVE build_song_facts(_, _)
build_song_facts(rows, today) ==
    IF rows = <<>> THEN <<>>
    ELSE FactsOfSong(rows[1], today) \o build_song_facts(Tail(rows), today)

\* The loop of main that keeps the calendar rows of other source systems.
KeptExisting(calendar) ==
    SelectSeq(calendar, LAMBDA r : Strip(r.source_system) # SONG_SOURCE_SYSTEM)

\* int(r.get("year") or 0) of sort_key: its value, or that it raises.
SortYear(year) == IF year = EMPTY THEN [ok |-> TRUE, val |-> 0] ELSE PyInt(year)

\* merged.sort(key=sort_key): by (key_mmdd, int(year), fact_category, title).
\* The year is compared as a number: its four-digit text has the same order.
SortSongCalendar(rows) ==
    LET pairs  == [i \in DOMAIN rows |->
                      <<<<rows[i].key_mmdd, Format04d(SortYear(rows[i].year).val),
                          rows[i].fact_category, rows[i].title>>, rows[i]>>]
        sorted == SortPairs(pairs)
    IN  [i \in DOMAIN sorted |-> sorted[i][2]]

\* The end of main: merged = kept_existing + song_facts, sorted; ValueError
\* when a year cell is not an integer.
MergeSongFacts(kept, facts) ==
    LET rows == kept \o facts
    IN  [raised |-> \E i \in DOMAIN rows : ~SortYear(rows[i].year).ok,
         rows   |-> IF \E i \in DOMAIN rows : ~SortYear(rows[i].year).ok THEN <<>>
                    ELSE SortSongCalendar(rows)]

(***************************************************************************)
(* scripts/fetch_song_release_dates.py.  Wikipedia and Wikidata are        *)
(* external: each lookup gets one reply chosen by the environment, a value *)
(* or None (nothing found) or Err (the lookup raises).                     *)
(***************************************************************************)

Err == <<"Err">>

\* the twelve columns of the songs file (fieldnames of write_csv, `required`
\* of main)
SongCols ==
    {"work_type", "title", "byline", "release_date", "month", "day", "extra",
     "source_url", "entry_date", "peak_date", "peak_position", "date_source"}

\* `v or ""`
OrEmpty(v) == IF v = None THEN EMPTY ELSE v

\* DATE_RX_ISO.match(s): \s*(\d{4})(?:-(\d{2}))?(?:-(\d{2}))?\s* and its
\* groups mm, dd (EMPTY when absent)
DATE_RX_ISO(s) ==
    LET t == Strip(s)
        n == Len(t)
        D(i) == t[i] \in Digits
    IN  IF n = 4 /\ \A i \in 1..4 : D(i)
        THEN [ok |-> TRUE, mm |-> EMPTY, dd |-> EMPTY]
        ELSE IF n = 7 /\ (\A i \in {1, 2, 3, 4, 6, 7} : D(i)) /\ t[5] = "-"
        THEN [ok |-> TRUE, mm |-> SubSeq(t, 6, 7), dd |-> EMPTY]
        ELSE IF /\ n = 10
                /\ \A i \in {1, 2, 3, 4, 6, 7, 9, 10} : D(i)
                /\ t[5] = "-" /\ t[8] = "-"
        THEN [ok |-> TRUE, mm |-> SubSeq(t, 6, 7), dd |-> SubSeq(t, 9, 10)]
        ELSE [ok |-> FALSE, mm |-> EMPTY, dd |-> EMPTY]

\* s.zfill(2)
ZFill2(s) == IF Len(s) < 2 THEN [i \in 1..(2 - Len(s)) |-> "0"] \o s ELSE s

\* add_md_columns(iso): (month, day)
add_md_columns(iso) ==
    IF iso = None \/ iso = EMPTY THEN <<EMPTY, EMPTY>>
    ELSE IF DATE_RX_ISO(iso).ok THEN <<DATE_RX_ISO(iso).mm, DATE_RX_ISO(iso).dd>>
    ELSE IF Len(SplitDash(iso)) = 2 THEN <<ZFill2(SplitDash(iso)[2]), EMPTY>>
    ELSE <<EMPTY, EMPTY>>

\* the last segment of the path
RECURSIVE LastSegment(_)
LastSegment(s) ==
    IF s = <<>> \/ s[Len(s)] = "/" THEN <<>>
    ELSE LastSegment(SubSeq(s, 1, Len(s) - 1)) \o <<s[Len(s)]>>

\* derive_title_from_url(url) for the urls of the model, whose path has no
\* /wiki/ prefix: the last segment of the path, None when it is empty.
derive_title_from_url(url) ==
    IF LastSegment(url) = EMPTY THEN None ELSE LastSegment(url)

\* Nothing came back from a lookup: it returned None or it raised (every
\* lookup of process_row sits in a try / except that passes).
Nothing(reply) == reply = None \/ reply = Err \/ reply = EMPTY

\* process_row(s, row, throttle) under the replies `net` of its lookups: the
\* row it returns, or that it raises (raised = TRUE).  A cell is None when
\* the line of the file was shorter than the header.
process_row(row, net) ==
    LET title0  == Strip(OrEmpty(row.title))
        derived == derive_title_from_url(Strip(row.source_url))
        title1  == IF title0 = EMPTY /\ derived # None THEN derived ELSE title0
        qid1    == IF title1 # EMPTY /\ ~Nothing(net.qid) THEN net.qid ELSE None
        guess   == IF qid1 = None /\ title1 # EMPTY /\ ~Nothing(net.search)
                   THEN net.search ELSE None
        qid2    == IF qid1 # None THEN qid1
                   ELSE IF guess # None /\ ~Nothing(net.guess_qid) THEN net.guess_qid
                   ELSE None
        title2  == IF qid1 = None /\ guess # None /\ qid2 # None THEN guess ELSE title1
        wd_date == IF qid2 # None /\ ~Nothing(net.wd) THEN net.wd ELSE None
        wt_date == IF wd_date = None /\ title2 # EMPTY /\ ~Nothing(net.wt)
                   THEN net.wt ELSE None
        release_date == IF wd_date # None THEN wd_date ELSE wt_date
        date_source  == IF wd_date # None THEN <<"w", "i", "k", "i", "d", "a", "t", "a", ":", "P", "5", "7", "7">>
                        ELSE IF wt_date # None THEN <<"i", "n", "f", "o", "b", "o", "x", ":", "r", "e", "l", "e", "a", "s", "e", "d">>
                        ELSE EMPTY
        md      == add_md_columns(release_date)
    IN  IF row.source_url = None THEN [raised |-> TRUE, out |-> row]
        ELSE [raised |-> FALSE,
              out    |-> [row EXCEPT !.release_date = OrEmpty(release_date),
                                     !.month = md[1],
                                     !.day = md[2],
                                     !.date_source = date_source]]

\* Mutant of TryProcessRow: without the except clause of main an exception of
\* process_row ends the run.
TryProcessRow_NoCatch(row, res) ==
    [row |-> IF res.raised THEN row ELSE res.out, propagates |-> res.raised]

\* try: all_rows[i] = process_row(...)
\* except Exception as e: all_rows[i]["date_source"] = f"error:{type(e).__name__}"
TryProcessRow(row, res) ==
    [row        |-> IF res.raised THEN [row EXCEPT !.date_source = <<"e", "r", "r", "o", "r", ":", "A", "t", "t", "r", "i", "b", "u", "t", "e", "E", "r", "r", "o", "r">>]
                    ELSE res.out,
     propagates |-> FALSE]

\* read_csv(path): csv.DictReader gives every cell as text.
read_csv(file) == file

\* r.setdefault(k, "") for the required columns
WithRequired(rows) ==
    [i \in DOMAIN rows |->
        [k \in SongCols |-> IF k \in DOMAIN rows[i] THEN rows[i][k] ELSE EMPTY]]

\* Mutant of IsTarget: every row is looked up again.
IsTarget_Always(r) == TRUE

\* not (r.get("release_date") or "").strip()
IsTarget(r) == Strip(OrEmpty(r.release_date)) = EMPTY

\* target_idxs: the rows whose release_date is blank, in file order
RECURSIVE TargetIdxs(_, _)
TargetIdxs(rows, n) ==
    IF n > Len(rows) THEN <<>>
    ELSE (IF IsTarget(rows[n]) THEN <<n>> ELSE <<>>) \o TargetIdxs(rows, n + 1)

\* write_csv(path, rows): the twelve columns; csv writes None as an empty
\* cell.
write_csv(rows) ==
    [i \in DOMAIN rows |->
        [k \in SongCols |-> IF k \in DOMAIN rows[i] THEN OrEmpty(rows[i][k]) ELSE EMPTY]]

(***************************************************************************)
(* State.                                                                  *)
(***************************************************************************)
VARIABLES
    day,            \* the calendar day of the current / next run (date.today())
    pc,             \* the position of the running script in its main()
    canonFile,      \* data/albums_canon.csv, as written
    wiki_deduped,   \* main: the scraped rows after dedupe_wiki_albums
    existing,       \* main: what load_existing returned
    merged,         \* main: what merge_with_existing returned
    ids,            \* main: what enrich_mbids returned
    details,        \* main: what enrich_mb_details returned
    mb_replies,     \* what MusicBrainz answered, per row, in the last enrichment
    usFile,         \* otd/albums_us_1m.csv, as written
    us_fresh,       \* build_albums_us_1m main: what fetch_album_tables returned
    us_existing,    \* build_albums_us_1m main: what load_existing returned
    us_merged,      \* build_albums_us_1m main: the table being merged and enriched
    calFile,        \* data/calendar_index.csv
    cal,            \* add_albums_to_calendar_index main: what load_calendar_index returned
    delta,          \* add_albums_to_calendar_index main: what load_albums_delta returned
    album_rows,     \* add_albums_to_calendar_index main: what build_album_calendar_rows returned
    cal_merged,     \* add_albums_to_calendar_index main: what merge_calendar returned
    deltaFile,      \* data/albums_release_delta.csv, as written
    rel_canon,      \* build_albums_release_delta main: what load_albums_canon returned
    rel_delta,      \* build_albums_release_delta main: what build_release_delta returned
    songsFile,      \* data/songs_top10_us_with_dates.csv
    songs_rows,     \* build_calendar_index_songs main: the rows of the songs file
    song_facts,     \* build_calendar_index_songs main: what build_song_facts returned
    kept_existing,  \* build_calendar_index_songs main: the calendar rows that are not song facts
    seedFile,       \* data/songs_top10_us.csv
    all_rows,       \* fetch_song_release_dates main: the rows of the file, as they are updated
    target_idxs,    \* fetch_song_release_dates main: the indices of the rows without release_date
    fsd_count,      \* fetch_song_release_dates main: how many targets the loop has handled
    fsd_lookups,    \* per handled target, what its lookups met
    bg_script,      \* which copy of backoff_get is called
    bg_max_retries, \* backoff_get: max_retries
    bg_statuses,    \* backoff_get: what each request met, in order
    bg_sleeps,      \* backoff_get: the sleeps made, each as the power of 1.7 that multiplies base_sleep
    hv_state,       \* harvest_songs_incremental: state[str(year)], the saved Last-Modified of the year (None when absent)
    hv_existing,    \* harvest_songs_incremental: the years of the rows of read_existing_songs()
    hv_fresh_rows,  \* harvest_songs_incremental: fresh_rows
    hv_max_retries, \* http_get_conditional: max_retries
    hv_statuses,    \* http_get_conditional: what each request met, in order
    hv_backoffs,    \* http_get_conditional: the sleeps made, each as the power of 2 that multiplies backoff
    dk_rows,        \* dedupe_keep_earliest: rows
    dk_out,         \* dedupe_keep_earliest: the list it returns
    dw_raw,         \* dedupe_wiki_albums: raw
    dw_deduped,     \* dedupe_wiki_albums: the frame it returns
    merged_again,   \* merge_with_existing called again with the frame it returned and the same fresh rows
    hr_existing,    \* harvest_songs_incremental: existing = read_existing_songs()
    hr_state,       \* harvest_songs_incremental: state, the saved Last-Modified of each target year
    hr_done,        \* harvest_songs_incremental: how the pass of each target year handled so far ended
    hr_fresh_rows,  \* harvest_songs_incremental: fresh_rows
    hr_combined     \* harvest_songs_incremental: the rows it returns

\* day and pc belong to whichever script is running.
canonVars == <<canonFile, wiki_deduped, existing, merged, ids, details, mb_replies>>

usVars == <<usFile, us_fresh, us_existing, us_merged>>

calVars == <<calFile, cal, delta, album_rows, cal_merged>>

relVars == <<deltaFile, rel_canon, rel_delta>>

songsVars == <<songsFile, songs_rows, song_facts, kept_existing>>

fsdVars == <<seedFile, all_rows, target_idxs, fsd_count, fsd_lookups>>

bgVars == <<bg_script, bg_max_retries, bg_statuses, bg_sleeps>>

hvVars == <<hv_state, hv_existing, hv_fresh_rows, hv_max_retries, hv_statuses, hv_backoffs>>

dkVars == <<dk_rows, dk_out>>

dwVars == <<dw_raw, dw_deduped>>

mtVars == <<merged_again>>

hrVars == <<hr_existing, hr_state, hr_done, hr_fresh_rows, hr_combined>>

vars == <<day, pc, canonVars, usVars, calVars, relVars, songsVars, fsdVars, bgVars, hvVars, dkVars, dwVars, mtVars, hrVars>>

\* What a script leaves alone: the files and locals of the other scripts.
notCanon == <<usVars, calVars, relVars, songsVars, fsdVars, bgVars, hvVars, dkVars, dwVars, mtVars, hrVars>>

notUs == <<canonVars, calVars, relVars, songsVars, fsdVars, bgVars, hvVars, dkVars, dwVars, mtVars, hrVars>>

notCal == <<canonVars, usVars, relVars, songsVars, fsdVars, bgVars, hvVars, dkVars, dwVars, mtVars, hrVars>>

notRel == <<canonVars, usVars, calVars, songsVars, fsdVars, bgVars, hvVars, dkVars, dwVars, mtVars, hrVars>>

\* build_calendar_index_songs.py rewrites data/calendar_index.csv.
notSongs == <<canonVars, usVars, relVars, cal, delta, album_rows, cal_merged, fsdVars, bgVars, hvVars, dkVars, dwVars, mtVars, hrVars>>

\* fetch_song_release_dates.py rewrites the songs file.
notFsd == <<canonVars, usVars, calVars, relVars, songs_rows, song_facts, kept_existing, bgVars, hvVars, dkVars, dwVars, mtVars, hrVars>>

notBg == <<canonVars, usVars, calVars, relVars, songsVars, fsdVars, hvVars, dkVars, dwVars, mtVars, hrVars>>

notHv == <<canonVars, usVars, calVars, relVars, songsVars, fsdVars, bgVars, dkVars, dwVars, mtVars, hrVars>>

notDk == <<canonVars, usVars, calVars, relVars, songsVars, fsdVars, bgVars, hvVars, dwVars, mtVars, hrVars>>

notDw == <<canonVars, usVars, calVars, relVars, songsVars, fsdVars, bgVars, hvVars, dkVars, mtVars, hrVars>>

notMt == <<canonVars, usVars, calVars, relVars, songsVars, fsdVars, bgVars, hvVars, dkVars, dwVars, hrVars>>

notHr == <<canonVars, usVars, calVars, relVars, songsVars, fsdVars, bgVars, hvVars, dkVars, dwVars, mtVars>>

(***************************************************************************)
(* Inputs of build_albums_canon.py.                                        *)
(***************************************************************************)

\* All sequences over S of length lo..hi.
SeqsOf(S, lo, hi) == UNION {[1..n -> S] : n \in lo..hi}

\* A row as fetch_album_tables_for_url returns it: stripped text columns,
\* shipments_units computed from sales_raw, list_source / source_url from the
\* page (url = "/" + label).
WikiRow(artist, album, year, label, sales_raw, certification, country, page) ==
    [year |-> year, artist |-> artist, album |-> album, label |-> label,
     sales_raw |-> sales_raw, certification |-> certification, country |-> country,
     shipments_units |-> extract_units(sales_raw),
     list_source |-> page, source_url |-> <<"/">> \o page]

\* A row of data/best_selling_albums_enriched.csv.
SeedRaw(artist, album, hint, units, mbid, date, year, country) ==
    [artist |-> artist, album |-> album, release_year_hint |-> hint,
     units_sold_raw |-> units, musicbrainz_id |-> mbid,
     mb_release_date_iso |-> date, mb_release_year |-> year, mb_country |-> country]

\* Scraped rows of the whole-script model: the same album under two
\* spellings with different data, and a second album.
PipeWikiRows ==
    {WikiRow(<<"A">>, <<"t">>, <<"1">>, EMPTY, <<"1">>, EMPTY, EMPTY, <<"1">>),
     WikiRow(<<"a">>, <<"t">>, <<"2">>, <<"b">>, <<"2">>, EMPTY, <<"U">>, <<"2">>),
     WikiRow(<<"b">>, <<"t">>, <<"1">>, EMPTY, EMPTY, <<"a">>, EMPTY, <<"1">>)}

\* Seed rows of the whole-script model: an album the lists also have, with
\* its MusicBrainz data, and an album only the seed has, without.
PipeSeedRows ==
    {SeedRaw(<<"a", " ">>, <<"t">>, <<"1">>, <<"2">>, MBID, FullDate, YearOnly, CountryUS),
     SeedRaw(<<"B">>, <<"u">>, EMPTY, EMPTY, EMPTY, EMPTY, EMPTY, EMPTY)}

\* Bounds of the whole-script model.
MaxRuns == 2

PipeWiki == 2

PipeSeed == 2

\* Replies the whole-script model lets MusicBrainz give.
PipeSearchReplies == {"found", "bad_payload"}

PipeDetailReplies == {"full", "http_error"}

NoResult == [df |-> <<>>]

(***************************************************************************)
(* main() of build_albums_canon.py, one action per call it makes.          *)
(***************************************************************************)

\* wiki_raw = fetch_all_wiki_albums(sess); wiki_deduped = dedupe_wiki_albums(wiki_raw)
FetchWiki(Rows, bound) ==
    /\ pc = "idle"
    /\ day <= MaxRuns
    /\ \E raw \in SeqsOf(Rows, 1, bound) :
           wiki_deduped' = dedupe_wiki_albums(raw)
    /\ pc' = "fetched"
    /\ UNCHANGED <<day, canonFile, existing, merged, ids, details, mb_replies, notCanon>>

\* fetch_all_wiki_albums raises RuntimeError when no page has album rows: the
\* run ends before anything is read or written.
FetchNothing ==
    /\ pc = "idle"
    /\ day <= MaxRuns
    /\ day' = day + 1
    /\ UNCHANGED <<pc, canonFile, wiki_deduped, existing, merged, ids, details, mb_replies, notCanon>>

\* existing = load_existing(args.out_path); the seed file holds what its
\* maintainer last saved.
LoadExisting(SeedRows, bound) ==
    /\ pc = "fetched"
    /\ \E seed_file \in SeqsOf(SeedRows, 0, bound) :
           existing' = load_existing(canonFile, seed_file, day)
    /\ pc' = "loaded"
    /\ UNCHANGED <<day, canonFile, wiki_deduped, merged, ids, details, mb_replies, notCanon>>

\* merged, new_count, updated_count, unchanged_count = merge_with_existing(...)
Merge ==
    /\ pc = "loaded"
    /\ merged' = merge_with_existing(existing, wiki_deduped, day)
    /\ pc' = "merged"
    /\ UNCHANGED <<day, canonFile, wiki_deduped, existing, ids, details, mb_replies, notCanon>>

\* merged, mbid_filled, mbid_failed = enrich_mbids(sess, merged)
EnrichMbids(Replies) ==
    /\ pc = "merged"
    /\ \E replies \in [DOMAIN merged.df -> Replies] :
           /\ ids' = enrich_mbids(merged.df, replies)
           /\ mb_replies' = replies
    /\ pc' = IF ids'.aborted THEN "crashed" ELSE "ids"
    /\ UNCHANGED <<day, canonFile, wiki_deduped, existing, merged, details, notCanon>>

\* merged, mbdet_filled, mbdet_failed = enrich_mb_details(sess, merged)
EnrichDetails(Replies) ==
    /\ pc = "ids"
    /\ \E replies \in [DOMAIN ids.df -> Replies] :
           /\ details' = enrich_mb_details(ids.df, replies)
           /\ mb_replies' = replies
    /\ pc' = "details"
    /\ UNCHANGED <<day, canonFile, wiki_deduped, existing, merged, ids, notCanon>>

\* merged.to_csv(args.out_path); the script ends, the next run is a later day.
WriteCanon ==
    /\ pc = "details"
    /\ canonFile' = WriteCsv(details.df)
    /\ day' = day + 1
    /\ pc' = "idle"
    /\ wiki_deduped' = <<>>
    /\ existing' = <<>>
    /\ merged' = NoResult
    /\ ids' = NoResult
    /\ details' = NoResult
    /\ mb_replies' = <<>>
    /\ UNCHANGED notCanon

\* The files and locals of build_albums_us_1m.py while it does not run.
UsUnused ==
    /\ usFile = <<>>
    /\ us_fresh = <<>>
    /\ us_existing = <<>>
    /\ us_merged = NoResult

\* The files and locals of add_albums_to_calendar_index.py while it does not
\* run.
CalUnused ==
    /\ calFile = <<>>
    /\ cal = <<>>
    /\ delta = <<>>
    /\ album_rows = <<>>
    /\ cal_merged = <<>>

\* The files and locals of build_albums_release_delta.py while it does not run.
RelUnused ==
    /\ deltaFile = <<>>
    /\ rel_canon = <<>>
    /\ rel_delta = <<>>

\* The files and locals of build_calendar_index_songs.py while it does not run.
SongsUnused ==
    /\ songsFile = <<>>
    /\ songs_rows = <<>>
    /\ song_facts = <<>>
    /\ kept_existing = <<>>

\* The files and locals of fetch_song_release_dates.py while it does not run.
FsdUnused ==
    /\ seedFile = <<>>
    /\ all_rows = <<>>
    /\ target_idxs = <<>>
    /\ fsd_count = 0
    /\ fsd_lookups = <<>>

\* The call of backoff_get while none is made.
BgUnused ==
    /\ bg_script = ""
    /\ bg_max_retries = 0
    /\ bg_statuses = <<>>
    /\ bg_sleeps = <<>>

\* The harvest of build_arts_on_this_day.py while it does not run.
HvUnused ==
    /\ hv_state = <<>>
    /\ hv_existing = <<>>
    /\ hv_fresh_rows = <<>>
    /\ hv_max_retries = 0
    /\ hv_statuses = <<>>
    /\ hv_backoffs = <<>>

\* The rows of dedupe_keep_earliest while it is not called.
DkUnused ==
    /\ dk_rows = <<>>
    /\ dk_out = <<>>

\* The frames of dedupe_wiki_albums while it is not called.
DwUnused ==
    /\ dw_raw = <<>>
    /\ dw_deduped = <<>>

\* The result of a repeated merge while none is made.
MtUnused ==
    /\ merged_again = <<>>

\* The locals of a whole harvest_songs_incremental while it does not run.
HrUnused ==
    /\ hr_existing = <<>>
    /\ hr_state = <<>>
    /\ hr_done = <<>>
    /\ hr_fresh_rows = <<>>
    /\ hr_combined = <<>>

\* Before the first run: no canon file.
InitCanon ==
    /\ day = 1
    /\ pc = "idle"
    /\ canonFile = <<>>
    /\ wiki_deduped = <<>>
    /\ existing = <<>>
    /\ merged = NoResult
    /\ ids = NoResult
    /\ details = NoResult
    /\ mb_replies = <<>>
    /\ UsUnused
    /\ CalUnused
    /\ RelUnused
    /\ SongsUnused
    /\ FsdUnused
    /\ BgUnused
    /\ HvUnused
    /\ DkUnused
    /\ DwUnused
    /\ MtUnused
    /\ HrUnused

NextCanon ==
    \/ FetchWiki(PipeWikiRows, PipeWiki)
    \/ FetchNothing
    \/ LoadExisting(PipeSeedRows, PipeSeed)
    \/ Merge
    \/ EnrichMbids(PipeSearchReplies)
    \/ EnrichDetails(PipeDetailReplies)
    \/ WriteCanon

\* Repeated runs of build_albums_canon.py, starting without a canon file.
SpecCanon == InitCanon /\ [][NextCanon]_vars

(***************************************************************************)
(* Claims about build_albums_canon.py as a whole (under SpecCanon).        *)
(***************************************************************************)

\* Two rows of a canon table with the same normalized (artist, album) key.
HasDuplicateKey(table) ==
    \E i, j \in DOMAIN table : i # j /\ key_from_row(table[i]) = key_from_row(table[j])

\* C1: starting from a canon file with at most one row per normalized
\* (artist, album) key, every run of build_albums_canon writes a canon file
\* with at most one row per key, whatever was scraped and whatever the seed
\* file holds.  (The first file is empty, so every written file is covered.)
C1_CanonKeysUnique == ~HasDuplicateKey(canonFile)

\* The two file rows agree on every column but added_on.
SameButAddedOn(r1, r2) == \A col \in BaseCols \ {"added_on"} : r1[col] = r2[col]

\* The run that is about to write `after` created or changed row r: the file
\* it started from has no row with r's values.
TouchedByRun(before, r) == ~\E j \in DOMAIN before : SameButAddedOn(before[j], r)

\* C3: each row's added_on in albums_canon.csv is the date of the most recent
\* run that created the row or changed any of its fields, the MusicBrainz
\* fields included.  Stated on the step that writes the file: a row the
\* finishing run created or changed carries the date of that run.
C3_AddedOnIsLastChange ==
    [][(pc = "details" /\ pc' = "idle") =>
          \A i \in DOMAIN canonFile' :
              TouchedByRun(canonFile, canonFile'[i]) =>
                  canonFile'[i].added_on = TodayStr(day)]_vars

(***************************************************************************)
(* merge_with_existing on its own: one merge on day MergeDay of any small  *)
(* set of scraped rows into what load_existing returns for any small canon *)
(* file an earlier run could have written.                                 *)
(***************************************************************************)

\* Bounds: rows of the canon file, scraped rows, rows of the seed file.
MaxExisting == 2

MaxFresh == 3

MaxSeed == 1

\* The day before the merge, and the day of the merge.
PrevDay == 1

MergeDay == PrevDay + 1

\* Scraped rows: two spellings of one album, two more albums; fields present,
\* absent (empty) and different from one row to another.
MergeFreshRows ==
    {WikiRow(<<"A">>, <<"t">>, <<"1">>, EMPTY, <<"1">>, EMPTY, EMPTY, <<"1">>),
     WikiRow(<<"a">>, <<"t">>, <<"2">>, <<"b">>, <<"2">>, <<"a">>, <<"U">>, <<"2">>),
     WikiRow(<<"a">>, <<"t">>, <<"1">>, <<"b">>, EMPTY, EMPTY, EMPTY, <<"1">>),
     WikiRow(<<"a">>, <<"u">>, <<"1">>, EMPTY, <<"1">>, EMPTY, EMPTY, <<"1">>),
     WikiRow(<<"a">>, <<"u">>, <<"2">>, <<"b">>, <<"2">>, <<"a">>, <<"U">>, <<"2">>),
     WikiRow(<<"b">>, <<"t">>, <<"1">>, <<"b">>, EMPTY, EMPTY, EMPTY, <<"1">>)}

MergeSeedRows ==
    {SeedRaw(<<"B">>, <<"u">>, <<"1">>, <<"2">>, MBID, FullDate, YearOnly, CountryUS)}

\* Rows as the previous day's run left them in memory before writing: new
\* rows from the lists (one of them enriched) and a row from the seed.
PrevRows ==
    {NewCanonRow(WikiRow(<<"A">>, <<"t">>, <<"1">>, EMPTY, <<"1">>, EMPTY, EMPTY, <<"1">>),
                 PrevDay),
     FillDetails([NewCanonRow(WikiRow(<<"a">>, <<"u">>, <<"2">>, <<"b">>, <<"2">>,
                                      <<"a">>, <<"U">>, <<"2">>), PrevDay)
                     EXCEPT !.musicbrainz_id = MBID], FullDate, CountryUS),
     SeedRow(SeedRaw(<<"a", " ">>, <<"t">>, <<"1">>, <<"2">>, EMPTY, EMPTY, EMPTY, EMPTY),
             PrevDay)}

\* The canon files the previous run could have written from them.
PrevFiles == {WriteCsv(SortCanon(rows)) : rows \in SeqsOf(PrevRows, 0, MaxExisting)}

InitMerge ==
    /\ day = MergeDay
    /\ pc = "loaded"
    /\ canonFile \in PrevFiles
    /\ \E raw \in SeqsOf(MergeFreshRows, 1, MaxFresh) :
           wiki_deduped = dedupe_wiki_albums(raw)
    /\ \E seed_file \in SeqsOf(MergeSeedRows, 0, MaxSeed) :
           existing = load_existing(canonFile, seed_file, day)
    /\ merged = NoResult
    /\ ids = NoResult
    /\ details = NoResult
    /\ mb_replies = <<>>
    /\ UsUnused
    /\ CalUnused
    /\ RelUnused
    /\ SongsUnused
    /\ FsdUnused
    /\ BgUnused
    /\ HvUnused
    /\ DkUnused
    /\ DwUnused
    /\ MtUnused
    /\ HrUnused

NextMerge == Merge

SpecMerge == InitMerge /\ [][NextMerge]_vars

\* Number of rows of `table` equal to row x.
Count(table, x) == Cardinality({i \in DOMAIN table : table[i] = x})

\* The rows of `table` with key k, as a sequence of their indices' rows.
KeysOf(table) == {key_from_row(table[i]) : i \in DOMAIN table}

RowsWithKey(table, k) == {table[i] : i \in {j \in DOMAIN table : key_from_row(table[j]) = k}}

CountKey(table, k) == Cardinality({i \in DOMAIN table : key_from_row(table[i]) = k})

\* The rows with key k are the same in `after` as in `before`, row for row.
KeyGroupUntouched(before, after, k) ==
    \A x \in RowsWithKey(before, k) \cup RowsWithKey(after, k) :
        Count(after, x) = Count(before, x)

\* The rows with key k are the same in `after` as in `before`, except that
\* one row e of `before` has become row o of `after`.
KeyGroupReplaces(before, after, k, e, o) ==
    \A x \in RowsWithKey(before, k) \cup RowsWithKey(after, k) :
        Count(after, x) - (IF x = o THEN 1 ELSE 0)
            = Count(before, x) - (IF x = e THEN 1 ELSE 0)

\* The designated text fields of the merge.
DesignatedText ==
    {"year", "label", "sales_raw", "certification", "country", "list_source", "source_url"}

Designated == DesignatedText \cup {"shipments_units"}

\* Some designated field of existing row e has another value in row o.
Overwritten(e, o) == \E col \in Designated : o[col] # e[col]

\* C2: in merge_with_existing, a fresh row whose key is absent from existing
\* is appended with added_on = today; an existing row in which a designated
\* field was overwritten gets added_on = today; an existing row matched
\* without any overwrite, and every existing row matched by no fresh row,
\* keeps its previous added_on.
C2_AddedOnStamp ==
    pc = "merged" =>
        /\ \A n \in DOMAIN wiki_deduped :
               LET k == key_from_row(wiki_deduped[n])
               IN  IF k \in KeysOf(existing)
                   THEN \E e \in RowsWithKey(existing, k), o \in RowsWithKey(merged.df, k) :
                            /\ KeyGroupReplaces(existing, merged.df, k, e, o)
                            /\ o.added_on = IF Overwritten(e, o) THEN TodayStr(day)
                                            ELSE e.added_on
                   ELSE /\ CountKey(merged.df, k) = 1
                        /\ \A o \in RowsWithKey(merged.df, k) : o.added_on = TodayStr(day)
        /\ \A k \in KeysOf(existing) \ KeysOf(wiki_deduped) :
               KeyGroupUntouched(existing, merged.df, k)

\* C2 witness: one merge that appended a new row, stamped a changed row, left
\* a matched row unchanged, and had an existing row no fresh row matched.
C2_Witness ==
    /\ pc = "merged"
    /\ merged.new_count >= 1
    /\ merged.updated_count >= 1
    /\ merged.unchanged_count >= 1
    /\ KeysOf(existing) \ KeysOf(wiki_deduped) # {}
    /\ \E e \in Range(existing) : e.added_on # TodayStr(day)

\* C4: in merge_with_existing, a designated text field of an existing row is
\* overwritten by the fresh row's value only if that value is non-empty and
\* differs from the existing value; an empty fresh value never replaces an
\* existing value; artist, album and the four MusicBrainz fields of an
\* existing row are never modified.
C4_OverwriteRule ==
    pc = "merged" =>
        /\ \A n \in DOMAIN wiki_deduped :
               LET f == wiki_deduped[n]
                   k == key_from_row(f)
               IN  k \in KeysOf(existing) =>
                       \E e \in RowsWithKey(existing, k), o \in RowsWithKey(merged.df, k) :
                           /\ KeyGroupReplaces(existing, merged.df, k, e, o)
                           /\ \A col \in {"artist", "album", "musicbrainz_id",
                                          "mb_release_date_iso", "mb_release_year",
                                          "mb_country"} : o[col] = e[col]
                           /\ \A col \in DesignatedText :
                                  \/ o[col] = e[col]
                                  \/ /\ o[col] = f[col]
                                     /\ f[col] # EMPTY
                                     /\ f[col] # Str(e[col])
        /\ \A k \in KeysOf(existing) \ KeysOf(wiki_deduped) :
               KeyGroupUntouched(existing, merged.df, k)

\* C4 witness: a matched existing row with a non-empty field for which the
\* fresh row has an empty value, and another field the fresh row overwrote.
C4_Witness ==
    /\ pc = "merged"
    /\ \E n \in DOMAIN wiki_deduped :
           \E e \in RowsWithKey(existing, key_from_row(wiki_deduped[n])),
              o \in RowsWithKey(merged.df, key_from_row(wiki_deduped[n])) :
               /\ KeyGroupReplaces(existing, merged.df, key_from_row(wiki_deduped[n]), e, o)
               /\ \E col \in DesignatedText :
                      wiki_deduped[n][col] = EMPTY /\ e[col] \notin {EMPTY, NaN}
                          /\ o[col] = e[col]
               /\ \E col \in DesignatedText : o[col] # e[col]
               /\ e.musicbrainz_id \notin {EMPTY, NaN}

(***************************************************************************)
(* enrich_mbids on its own: one call on any small merged table, with any   *)
(* reply of MusicBrainz to each lookup.                                    *)
(***************************************************************************)

\* Bound: rows of the table handed to enrich_mbids.
MaxDf == 3

\* Rows of a merged table: a row the merge just appended (empty-string
\* MusicBrainz columns), the same row as read back from the file (NaN), a
\* row that already has its id, and a row of a hand-edited file whose album
\* is blank.
MbRows ==
    LET new == NewCanonRow(WikiRow(<<"A">>, <<"t">>, <<"1">>, EMPTY, <<"1">>, EMPTY, EMPTY,
                                   <<"1">>), MergeDay)
    IN  {new,
         ReadCsv(WriteCsv(<<[new EXCEPT !.artist = <<"b">>]>>))[1],
         [new EXCEPT !.album = <<"u">>, !.musicbrainz_id = MBID],
         [new EXCEPT !.album = <<" ">>]}

InitMbids ==
    /\ day = MergeDay
    /\ pc = "merged"
    /\ canonFile = <<>>
    /\ wiki_deduped = <<>>
    /\ existing = <<>>
    /\ \E rows \in SeqsOf(MbRows, 0, MaxDf) :
           merged = [df |-> SortCanon(rows), new_count |-> 0, updated_count |-> 0,
                     unchanged_count |-> 0]
    /\ ids = NoResult
    /\ details = NoResult
    /\ mb_replies = <<>>
    /\ UsUnused
    /\ CalUnused
    /\ RelUnused
    /\ SongsUnused
    /\ FsdUnused
    /\ BgUnused
    /\ HvUnused
    /\ DkUnused
    /\ DwUnused
    /\ MtUnused
    /\ HrUnused

NextMbids == EnrichMbids(SearchReplies)

SpecMbids == InitMbids /\ [][NextMbids]_vars

\* A cell without content: missing or blank.
BlankCell(v) == v = NaN \/ Strip(v) = EMPTY

\* The candidate rows of the claim: empty musicbrainz_id, non-empty album
\* and artist.
MbidCandidates(df) ==
    {n \in DOMAIN df :
        BlankCell(df[n].musicbrainz_id) /\ ~BlankCell(df[n].album) /\ ~BlankCell(df[n].artist)}

UsRawRow(artist, album, year, label, shipments_raw, certification) ==
    [year |-> year, artist |-> artist, album |-> album, label |-> label,
     shipments_raw |-> shipments_raw, certification |-> certification]

\* What the page can hold (its album tables, in order): the same album in
\* two tables under two spellings; two albums in one table; a table of one
\* row without artist before a table that has an album; one album with other
\* figures; and a page whose only table has no album row.
UsPages ==
    {<< <<UsRawRow(<<"A">>, <<"t">>, <<"1">>, EMPTY, <<"1">>, EMPTY)>>,
        <<UsRawRow(<<" ", "a">>, <<"t">>, <<"1">>, EMPTY, <<"2">>, EMPTY)>> >>,
     << <<UsRawRow(<<"A">>, <<"t">>, <<"1">>, <<"b">>, EMPTY, EMPTY),
          UsRawRow(<<"b">>, <<"t">>, <<"2">>, EMPTY, <<"1">>, <<"a">>)>> >>,
     << <<UsRawRow(<<" ">>, <<"t">>, <<"1">>, EMPTY, EMPTY, EMPTY)>>,
        <<UsRawRow(<<"b">>, <<"t">>, <<"2">>, EMPTY, <<"1">>, <<"a">>)>> >>,
     << <<UsRawRow(<<"a">>, <<"t">>, <<"2">>, NaN, <<"a">>, <<"a">>)>> >>,
     << <<UsRawRow(<<" ">>, <<"t">>, <<"1">>, EMPTY, EMPTY, EMPTY)>> >>}

\* fresh = fetch_album_tables(sess)
UsFetch ==
    /\ pc = "idle"
    /\ day <= MaxRuns
    /\ \E page \in UsPages :
           /\ ~fetch_album_tables(page).raised
           /\ us_fresh' = fetch_album_tables(page).df
    /\ pc' = "us_fetched"
    /\ UNCHANGED <<day, usFile, us_existing, us_merged, notUs>>

\* fetch_album_tables raises RuntimeError: the run ends before anything is
\* read or written.
UsFetchNothing ==
    /\ pc = "idle"
    /\ day <= MaxRuns
    /\ \E page \in UsPages : fetch_album_tables(page).raised
    /\ day' = day + 1
    /\ UNCHANGED <<pc, usFile, us_fresh, us_existing, us_merged, notUs>>

\* existing = load_existing(args.out_path)
UsLoadExisting ==
    /\ pc = "us_fetched"
    /\ us_existing' = us_load_existing(usFile)
    /\ pc' = "us_loaded"
    /\ UNCHANGED <<day, usFile, us_fresh, us_merged, notUs>>

\* merged, updated_count, unchanged_count, new_count = merge_albums(existing, fresh)
UsMerge ==
    /\ pc = "us_loaded"
    /\ us_merged' = merge_albums(us_existing, us_fresh)
    /\ pc' = "us_merged"
    /\ UNCHANGED <<day, usFile, us_fresh, us_existing, notUs>>

\* merged, mbid_filled, mbid_failed = enrich_mbids(sess, merged)
\* (enrich_mbids of this script is the code of build_albums_canon.py's)
UsEnrichMbids(Replies) ==
    /\ pc = "us_merged"
    /\ \E replies \in [DOMAIN us_merged.df -> Replies] :
           us_merged' = enrich_mbids(us_merged.df, replies)
    /\ pc' = IF us_merged'.aborted THEN "crashed" ELSE "us_ids"
    /\ UNCHANGED <<day, usFile, us_fresh, us_existing, notUs>>

\* merged, mbdet_filled, mbdet_failed = enrich_mb_details(sess, merged)
UsEnrichDetails(Replies) ==
    /\ pc = "us_ids"
    /\ \E replies \in [DOMAIN us_merged.df -> Replies] :
           us_merged' = enrich_mb_details(us_merged.df, replies)
    /\ pc' = "us_details"
    /\ UNCHANGED <<day, usFile, us_fresh, us_existing, notUs>>

\* merged.to_csv(args.out_path); the script ends, the next run is a later day.
UsWrite ==
    /\ pc = "us_details"
    /\ usFile' = WriteCsv(us_merged.df)
    /\ day' = day + 1
    /\ pc' = "idle"
    /\ us_fresh' = <<>>
    /\ us_existing' = <<>>
    /\ us_merged' = NoResult
    /\ UNCHANGED notUs

\* The files and locals of build_albums_canon.py while it does not run.
CanonUnused ==
    /\ canonFile = <<>>
    /\ wiki_deduped = <<>>
    /\ existing = <<>>
    /\ merged = NoResult
    /\ ids = NoResult
    /\ details = NoResult
    /\ mb_replies = <<>>

\* Before the first run: no otd/albums_us_1m.csv.
InitUs1m ==
    /\ day = 1
    /\ pc = "idle"
    /\ UsUnused
    /\ CalUnused
    /\ CanonUnused
    /\ RelUnused
    /\ SongsUnused
    /\ FsdUnused
    /\ BgUnused
    /\ HvUnused
    /\ DkUnused
    /\ DwUnused
    /\ MtUnused
    /\ HrUnused

NextUs1m ==
    \/ UsFetch
    \/ UsFetchNothing
    \/ UsLoadExisting
    \/ UsMerge
    \/ UsEnrichMbids(PipeSearchReplies)
    \/ UsEnrichDetails(PipeDetailReplies)
    \/ UsWrite

\* Repeated runs of build_albums_us_1m.py, starting without an output file.
SpecUs1m == InitUs1m /\ [][NextUs1m]_vars

\* C5: starting from an otd/albums_us_1m.csv with at most one row per
\* normalized (artist, album) key, every run of build_albums_us_1m writes a
\* table with at most one row per key, whatever the page's tables hold.  (The
\* first file is empty, so every written file is covered.)
C5_UsKeysUnique == ~HasDuplicateKey(usFile)

(***************************************************************************)
(* main() of add_albums_to_calendar_index.py, one action per call.         *)
(***************************************************************************)

\* A row of data/calendar_index.csv as another run or another script of the
\* repository wrote it.
CalFileRow(key_mmdd, year, iso_date, work_type, title, byline, used_on, use_count, added_on) ==
    [key_mmdd |-> key_mmdd, year |-> year, iso_date |-> iso_date,
     fact_domain |-> <<"m", "u", "s", "i", "c">>, fact_category |-> EMPTY, fact_tags |-> EMPTY,
     title |-> title, byline |-> byline, role |-> EMPTY, work_type |-> work_type,
     summary_template |-> EMPTY, source_url |-> EMPTY, source_system |-> EMPTY,
     source_id |-> EMPTY, country |-> EMPTY, language |-> EMPTY, extra |-> EMPTY,
     used_on |-> used_on, use_count |-> use_count, added_on |-> added_on]

\* A row of data/albums_release_delta.csv (the columns the script reads).
DeltaFileRow(title, byline, release_date, mm, dd, sales_raw, shipments_units) ==
    [title |-> title, byline |-> byline, release_date |-> release_date,
     month |-> mm, day |-> dd, sales_raw |-> sales_raw,
     shipments_units |-> shipments_units, source_url |-> <<"/", "1">>,
     added_on |-> TodayStr(2)]

EarlierDate == <<"1", "9", "8", "1", "-", "0", "1", "-", "0", "1">>

\* Calendar rows of the model: an album fact that was already used, a song
\* fact of an earlier date with empty bookkeeping cells, and an unused album
\* fact.
CalFileRows ==
    {CalFileRow(<<"1", "1", "3", "0">>, YearOnly, FullDate, <<"a", "l", "b", "u", "m">>, <<"t">>, <<"A">>,
                TodayStr(1), <<"1">>, TodayStr(1)),
     CalFileRow(<<"0", "1", "0", "1">>, <<"1", "9", "8", "1">>, EarlierDate, <<"s", "o", "n", "g">>, <<"u">>, <<"b">>,
                EMPTY, EMPTY, EMPTY),
     CalFileRow(<<"1", "1", "3", "0">>, YearOnly, FullDate, <<"a", "l", "b", "u", "m">>, <<"u">>, <<"b">>,
                EMPTY, <<"0">>, TodayStr(1))}

\* Delta rows of the model: an album the calendar may already have (other
\* capitals); an album without month / day cells; the same album with other
\* capitals in the byline; a blank title; a missing release_date next to
\* month / day cells; a release_date of a year only.
DeltaFileRows ==
    {DeltaFileRow(<<"T">>, <<"a">>, FullDate, <<"1", "1">>, <<"3", "0">>, <<"2">>, 2),
     DeltaFileRow(<<"u">>, <<"b">>, FullDate, EMPTY, EMPTY, EMPTY, 0),
     DeltaFileRow(<<"u">>, <<"B">>, FullDate, <<"1", "1">>, <<"3", "0">>, EMPTY, 1),
     DeltaFileRow(<<" ">>, <<"a">>, FullDate, <<"1", "1">>, <<"3", "0">>, EMPTY, 0),
     DeltaFileRow(<<"t">>, <<"b">>, EMPTY, <<"1", "1">>, <<"3", "0">>, EMPTY, 0),
     DeltaFileRow(<<"t">>, <<"b">>, YearOnly, EMPTY, EMPTY, EMPTY, 0)}

\* Rows of the calendar file, rows of the delta file.
MaxCal == 2

MaxDelta == 2

\* cal = load_calendar_index(args.calendar_path)
LoadCalendarIndex ==
    /\ pc = "idle"
    /\ cal' = load_calendar_index(calFile)
    /\ pc' = "cal_loaded"
    /\ UNCHANGED <<day, calFile, delta, album_rows, cal_merged, notCal>>

\* delta = load_albums_delta(args.albums_delta_path); the delta file holds
\* what the delta step last wrote.
LoadAlbumsDelta ==
    /\ pc = "cal_loaded"
    /\ \E delta_file \in SeqsOf(DeltaFileRows, 0, MaxDelta) :
           delta' = load_albums_delta(delta_file)
    /\ pc' = "delta_loaded"
    /\ UNCHANGED <<day, calFile, cal, album_rows, cal_merged, notCal>>

\* album_rows = build_album_calendar_rows(delta)
BuildAlbumRows ==
    /\ pc = "delta_loaded"
    /\ album_rows' = build_album_calendar_rows(delta)
    /\ pc' = "cal_rows"
    /\ UNCHANGED <<day, calFile, cal, delta, cal_merged, notCal>>

\* merged = merge_calendar(cal, album_rows)
MergeCalendar ==
    /\ pc = "cal_rows"
    /\ cal_merged' = merge_calendar(cal, album_rows)
    /\ pc' = "cal_merged"
    /\ UNCHANGED <<day, calFile, cal, delta, album_rows, notCal>>

\* merged.to_csv(args.calendar_path, index=False); the script ends.
WriteCalendar ==
    /\ pc = "cal_merged"
    /\ calFile' = WriteCalendarCsv(cal_merged)
    /\ pc' = "cal_written"
    /\ UNCHANGED <<day, cal, delta, album_rows, cal_merged, notCal>>

\* One run of add_albums_to_calendar_index.py on a calendar file of up to
\* MaxCal rows, in any order.
InitCalendar ==
    /\ day = 1
    /\ pc = "idle"
    /\ calFile \in SeqsOf(CalFileRows, 0, MaxCal)
    /\ cal = <<>>
    /\ delta = <<>>
    /\ album_rows = <<>>
    /\ cal_merged = <<>>
    /\ CanonUnused
    /\ UsUnused
    /\ RelUnused
    /\ SongsUnused
    /\ FsdUnused
    /\ BgUnused
    /\ HvUnused
    /\ DkUnused
    /\ DwUnused
    /\ MtUnused
    /\ HrUnused

NextCalendar ==
    \/ LoadCalendarIndex
    \/ LoadAlbumsDelta
    \/ BuildAlbumRows
    \/ MergeCalendar
    \/ WriteCalendar

SpecCalendar == InitCalendar /\ [][NextCalendar]_vars

(***************************************************************************)
(* Claims about add_albums_to_calendar_index.py (under SpecCalendar).      *)
(***************************************************************************)

CalendarKeys(table) == {key_tuple(table[i]) : i \in DOMAIN table}

\* Two rows of a calendar table with the same dedupe key.
HasDuplicateCalendarKey(table) ==
    \E i, j \in DOMAIN table : i # j /\ key_tuple(table[i]) = key_tuple(table[j])

\* C6: merge_calendar lets existing rows win.  Every row of the existing
\* calendar is in the output with all its column values (as often as it was
\* in the input), and every other row of the output is a new album row whose
\* key (lower(work_type), iso_date, lower(title), lower(byline)) is the key
\* of no existing row.
C6_ExistingRowsWin ==
    pc = "cal_merged" =>
        /\ \A r \in Range(cal) : Count(cal_merged, r) >= Count(cal, r)
        /\ \A r \in Range(cal_merged) :
               Count(cal_merged, r) > Count(cal, r) =>
                   /\ r \in Range(album_rows)
                   /\ key_tuple(r) \notin CalendarKeys(cal)

\* A merge into a calendar with a used row (use_count > 0), where one new row
\* has the key of an existing row and another new row was appended.
C6_Witness ==
    /\ pc = "cal_merged"
    /\ \E i \in DOMAIN cal : cal[i].use_count > 0 /\ ~IsNa(cal[i].used_on)
    /\ \E i \in DOMAIN album_rows : key_tuple(album_rows[i]) \in CalendarKeys(cal)
    /\ \E i \in DOMAIN album_rows : key_tuple(album_rows[i]) \notin CalendarKeys(cal)
    /\ Len(cal_merged) > Len(cal)

\* C7: if the existing calendar has at most one row per key, so has the
\* output of merge_calendar, whatever the new album rows are.
C7_MergedKeysUnique ==
    (pc = "cal_merged" /\ ~HasDuplicateCalendarKey(cal)) =>
        ~HasDuplicateCalendarKey(cal_merged)

\* Ascending by (iso_date, work_type, title): no row is followed by a row
\* with a smaller sort key.
CalendarSorted(table) ==
    \A i, j \in DOMAIN table :
        i < j => ~KeyLess(<<table[j].iso_date, table[j].work_type, table[j].title>>,
                          <<table[i].iso_date, table[i].work_type, table[i].title>>)

\* C8: the table merge_calendar returns is sorted ascending by (iso_date,
\* work_type, title), for every existing table and every set of new rows,
\* the empty one included.
C8_MergedSorted == pc = "cal_merged" => CalendarSorted(cal_merged)

\* A text of the form YYYY-MM-DD.
IsYmd(s) ==
    /\ Len(s) = 10
    /\ s[5] = "-"
    /\ s[8] = "-"
    /\ \A i \in {1, 2, 3, 4, 6, 7, 9, 10} : s[i] \in Digits

\* C10: build_album_calendar_rows skips the delta rows without title or
\* without a release_date of the form YYYY-MM-DD: every row it emits has an
\* iso_date YYYY-MM-DD, the year YYYY of that date, and the key_mmdd MMDD of
\* that date.
C10_EmittedRowsWellFormed ==
    pc = "cal_rows" =>
        \A i \in DOMAIN album_rows :
            LET r == album_rows[i]
            IN  /\ IsYmd(r.iso_date)
                /\ r.year = SubSeq(r.iso_date, 1, 4)
                /\ r.key_mmdd = SubSeq(r.iso_date, 6, 7) \o SubSeq(r.iso_date, 9, 10)

(***************************************************************************)
(* main() of build_albums_release_delta.py, one action per call.           *)
(***************************************************************************)

\* A row of data/albums_canon.csv as build_albums_canon.py wrote it.
RelCanonRow(artist, album, mb_release_date_iso, added_on) ==
    [year |-> <<"1">>, artist |-> artist, album |-> album, label |-> EMPTY,
     sales_raw |-> <<"2">>, certification |-> EMPTY, country |-> EMPTY,
     shipments_units |-> 2, list_source |-> <<"1">>, source_url |-> <<"/", "1">>,
     musicbrainz_id |-> MBID, mb_release_date_iso |-> mb_release_date_iso,
     mb_release_year |-> SplitFirst(mb_release_date_iso), mb_country |-> EMPTY,
     added_on |-> added_on]

\* Canon rows of the model: a full date stamped on day 2; a year-only date; a
\* full date stamped on day 1; no date; a date with a letter in the month; an
\* earlier full date with blanks around the artist.
RelCanonRows ==
    {RelCanonRow(<<"a">>, <<"t">>, FullDate, TodayStr(2)),
     RelCanonRow(<<"b">>, <<"t">>, YearOnly, TodayStr(2)),
     RelCanonRow(<<"a">>, <<"u">>, FullDate, TodayStr(1)),
     RelCanonRow(<<"b">>, <<"u">>, EMPTY, TodayStr(2)),
     RelCanonRow(<<"A">>, <<"t">>, <<"1", "9", "8", "2", "-", "1", "b", "-", "3", "0">>, TodayStr(2)),
     RelCanonRow(<<" ", "a">>, <<"u">>, EarlierDate, TodayStr(2))}

\* Rows of the canon file.
MaxRelCanon == 2

\* canon = load_albums_canon(args.in_path)
LoadAlbumsCanon ==
    /\ pc = "idle"
    /\ rel_canon' = load_albums_canon(canonFile)
    /\ pc' = "rel_loaded"
    /\ UNCHANGED <<day, deltaFile, rel_delta, notRel>>

\* delta = build_release_delta(canon)
BuildReleaseDelta ==
    /\ pc = "rel_loaded"
    /\ rel_delta' = build_release_delta(rel_canon, day).df
    /\ pc' = IF build_release_delta(rel_canon, day).raised THEN "crashed" ELSE "rel_built"
    /\ UNCHANGED <<day, deltaFile, rel_canon, notRel>>

\* delta.to_csv(args.out_path, index=False); the script ends.
WriteReleaseDelta ==
    /\ pc = "rel_built"
    /\ deltaFile' = WriteDeltaCsv(rel_delta)
    /\ pc' = "rel_written"
    /\ UNCHANGED <<day, rel_canon, rel_delta, notRel>>

\* One run of build_albums_release_delta.py, on day 1..MaxRuns, on a canon
\* file of up to MaxRelCanon rows.
InitReleaseDelta ==
    /\ day \in 1..MaxRuns
    /\ pc = "idle"
    /\ canonFile \in SeqsOf(RelCanonRows, 0, MaxRelCanon)
    /\ wiki_deduped = <<>>
    /\ existing = <<>>
    /\ merged = NoResult
    /\ ids = NoResult
    /\ details = NoResult
    /\ mb_replies = <<>>
    /\ UsUnused
    /\ CalUnused
    /\ RelUnused
    /\ SongsUnused
    /\ FsdUnused
    /\ BgUnused
    /\ HvUnused
    /\ DkUnused
    /\ DwUnused
    /\ MtUnused
    /\ HrUnused

NextReleaseDelta ==
    \/ LoadAlbumsCanon
    \/ BuildReleaseDelta
    \/ WriteReleaseDelta

SpecReleaseDelta == InitReleaseDelta /\ [][NextReleaseDelta]_vars

\* The canon row is stamped today and has a release date YYYY-MM-DD.
InDelta(row) ==
    /\ Strip(Str(row.added_on)) = TodayStr(day)
    /\ IsYmd(Strip(Str(row.mb_release_date_iso)))

\* The delta row is the one of this canon row.
DeltaRowOf(row, o) ==
    /\ o.title = Strip(Str(row.album))
    /\ o.byline = Strip(Str(row.artist))
    /\ o.release_date = Strip(Str(row.mb_release_date_iso))
    /\ o.added_on = Strip(Str(row.added_on))
    /\ o.shipments_units = row.shipments_units

\* C11: build_release_delta outputs exactly one row for each canon row whose
\* added_on is today's date and whose mb_release_date_iso has the form
\* YYYY-MM-DD, and no other row; month and day of each output row are the
\* integers MM and DD of its release_date.
C11_DeltaRows ==
    pc = "rel_built" =>
        /\ Len(rel_delta) = Cardinality({i \in DOMAIN rel_canon : InDelta(rel_canon[i])})
        /\ \A o \in Range(rel_delta) :
               /\ Count(rel_delta, o) =
                      Cardinality({i \in DOMAIN rel_canon :
                                      InDelta(rel_canon[i]) /\ DeltaRowOf(rel_canon[i], o)})
               /\ o.month = DigitsToInt(SubSeq(o.release_date, 6, 7))
               /\ o.day = DigitsToInt(SubSeq(o.release_date, 9, 10))

\* A delta with a row, built from a canon that also has a row of today
\* without a full date or a row of another day.
C11_Witness ==
    /\ pc = "rel_built"
    /\ rel_delta # <<>>
    /\ \E i \in DOMAIN rel_canon : ~InDelta(rel_canon[i])

(***************************************************************************)
(* main() of build_calendar_index_songs.py, one action per step.           *)
(***************************************************************************)

\* A row of data/songs_top10_us_with_dates.csv.
SongFileRow(title, byline, release_date, entry_date, peak_date, peak_position) ==
    [work_type |-> <<"s", "o", "n", "g">>, title |-> title, byline |-> byline,
     release_date |-> release_date, month |-> EMPTY, day |-> EMPTY, extra |-> EMPTY,
     source_url |-> <<"/", "1">>, entry_date |-> entry_date, peak_date |-> peak_date,
     peak_position |-> peak_position, date_source |-> EMPTY]

\* A date the pattern accepts and the calendar does not have.
NoSuchDate == <<"1", "9", "8", "2", "-", "1", "3", "-", "3", "0">>

\* Songs of the model: a number one with all its dates; a number one without
\* peak date; a number two; a number one with a year-only peak date; a
\* number one whose peak date is no date of the calendar; a song without
\* dates.
SongFileRows ==
    {SongFileRow(<<"t">>, <<"a">>, EarlierDate, FullDate, FullDate, <<"1">>),
     SongFileRow(<<"t">>, <<"b">>, EMPTY, FullDate, EMPTY, <<"1">>),
     SongFileRow(<<"u">>, <<"a">>, EMPTY, FullDate, FullDate, <<"2">>),
     SongFileRow(<<"u">>, <<"b">>, EMPTY, EarlierDate, YearOnly, <<" ", "1">>),
     SongFileRow(<<"n">>, <<"a">>, EMPTY, FullDate, NoSuchDate, <<"1">>),
     SongFileRow(<<"n">>, <<"b">>, YearOnly, EMPTY, EMPTY, EMPTY)}

\* Rows of the songs file.
MaxSongs == 2

\* Calendar files the run can find: none; an album fact of
\* add_albums_to_calendar_index.py; a song fact of an earlier run that has
\* been used since; both.
SongCalendarFiles ==
    LET album == CalFileRow(<<"1", "1", "3", "0">>, YearOnly, FullDate, <<"a", "l", "b", "u", "m">>, <<"t">>, <<"A">>,
                            TodayStr(1), <<"1">>, TodayStr(1))
        fact  == FactsOfSong(SongFileRow(<<"u">>, <<"a">>, EMPTY, FullDate, FullDate, <<"2">>),
                             1)[1]
        used  == [fact EXCEPT !.used_on = TodayStr(1), !.use_count = <<"1">>]
    IN  {<<>>, <<album>>, <<used>>, <<album, used>>}

\* songs_rows = list(csv.DictReader(f))
SongsRead ==
    /\ pc = "idle"
    /\ songs_rows' = songsFile
    /\ pc' = "songs_read"
    /\ UNCHANGED <<day, calFile, songsFile, song_facts, kept_existing, notSongs>>

\* song_facts = build_song_facts(songs_rows)
SongsBuildFacts ==
    /\ pc = "songs_read"
    /\ song_facts' = build_song_facts(songs_rows, day)
    /\ pc' = "songs_facts"
    /\ UNCHANGED <<day, calFile, songsFile, songs_rows, kept_existing, notSongs>>

\* existing = read_csv_if_exists(args.calendar_path) and the loop that keeps
\* the rows of other source systems
SongsKeepExisting ==
    /\ pc = "songs_facts"
    /\ kept_existing' = KeptExisting(calFile)
    /\ pc' = "songs_kept"
    /\ UNCHANGED <<day, calFile, songsFile, songs_rows, song_facts, notSongs>>

\* merged = kept_existing + song_facts; merged.sort(key=sort_key);
\* write_calendar(args.calendar_path, merged)
SongsWriteCalendar ==
    /\ pc = "songs_kept"
    /\ ~MergeSongFacts(kept_existing, song_facts).raised
    /\ calFile' = MergeSongFacts(kept_existing, song_facts).rows
    /\ pc' = "songs_written"
    /\ UNCHANGED <<day, songsFile, songs_rows, song_facts, kept_existing, notSongs>>

\* One run of build_calendar_index_songs.py on day 2, on a songs file of up
\* to MaxSongs rows.
InitSongs ==
    /\ day = 2
    /\ pc = "idle"
    /\ songsFile \in SeqsOf(SongFileRows, 0, MaxSongs)
    /\ songs_rows = <<>>
    /\ song_facts = <<>>
    /\ kept_existing = <<>>
    /\ calFile \in SongCalendarFiles
    /\ cal = <<>>
    /\ delta = <<>>
    /\ album_rows = <<>>
    /\ cal_merged = <<>>
    /\ CanonUnused
    /\ UsUnused
    /\ RelUnused
    /\ FsdUnused
    /\ BgUnused
    /\ HvUnused
    /\ DkUnused
    /\ DwUnused
    /\ MtUnused
    /\ HrUnused

NextSongs ==
    \/ SongsRead
    \/ SongsBuildFacts
    \/ SongsKeepExisting
    \/ SongsWriteCalendar

SpecSongs == InitSongs /\ [][NextSongs]_vars

\* The facts of the song of row r (a song is its title and byline).
FactsFor(r) ==
    {f \in Range(song_facts) : f.title = Strip(r.title) /\ f.byline = Strip(r.byline)}

\* C12: a song with a no.1 peak (peak_position equal to 1) gets no fact with
\* fact_tags = chart_entry from build_song_facts, whatever its release_date,
\* entry_date and peak_date are.
C12_NoChartEntryForNo1 ==
    pc = "songs_facts" =>
        \A i \in DOMAIN songs_rows :
            Strip(songs_rows[i].peak_position) = <<"1">> =>
                \A f \in FactsFor(songs_rows[i]) : f.fact_tags # <<"c", "h", "a", "r", "t", "_", "e", "n", "t", "r", "y">>

(***************************************************************************)
(* scripts/fetch_song_release_dates.py, main: one run over the songs file. *)
(***************************************************************************)

YearMonth == <<"1", "9", "8", "2", "-", "1", "1">>

QID == <<"Q", "1">>

FsdFileRow(title, release_date, month, dd, source_url, date_source) ==
    [work_type |-> <<"s", "o", "n", "g">>, title |-> title, byline |-> <<"b">>,
     release_date |-> release_date, month |-> month, day |-> dd, extra |-> EMPTY,
     source_url |-> source_url, entry_date |-> FullDate, peak_date |-> EMPTY,
     peak_position |-> <<"5">>, date_source |-> date_source]

\* A line of the file that ends after byline: DictReader gives None for the
\* cells it lacks.
FsdShortRow ==
    [k \in SongCols |->
        IF k = "work_type" THEN <<"s", "o", "n", "g">>
        ELSE IF k = "title" THEN <<"v">>
        ELSE IF k = "byline" THEN <<"b">>
        ELSE None]

\* Rows of data/songs_top10_us_with_dates.csv: two with a date, a plain one
\* without, one without title, one left by a run that met an error, and a
\* short line.
FsdFileRows ==
    { FsdFileRow(<<"t">>, FullDate, <<"1", "1">>, <<"3", "0">>, <<"/", "t">>, <<"w", "i", "k", "i", "d", "a", "t", "a", ":", "P", "5", "7", "7">>),
      FsdFileRow(<<"s">>, YearOnly, EMPTY, EMPTY, <<"/", "s">>, <<"i", "n", "f", "o", "b", "o", "x", ":", "r", "e", "l", "e", "a", "s", "e", "d">>),
      FsdFileRow(<<"u">>, EMPTY, EMPTY, EMPTY, <<"/", "u">>, EMPTY),
      FsdFileRow(EMPTY, <<" ">>, EMPTY, EMPTY, <<"/", "w">>, EMPTY),
      FsdFileRow(<<"x">>, EMPTY, EMPTY, EMPTY, EMPTY, <<"e", "r", "r", "o", "r", ":", "A", "t", "t", "r", "i", "b", "u", "t", "e", "E", "r", "r", "o", "r">>),
      FsdShortRow }

\* A row of data/songs_top10_us.csv, which has no date columns.
FsdSeedRow ==
    [work_type |-> <<"s", "o", "n", "g">>, title |-> <<"u">>, byline |-> <<"b">>, extra |-> EMPTY,
     source_url |-> <<"/", "u">>, entry_date |-> FullDate, peak_date |-> EMPTY,
     peak_position |-> <<"5">>]

MaxFsdRows == 2

LookupReply(qid, search, guess_qid, wd, wt) ==
    [qid |-> qid, search |-> search, guess_qid |-> guess_qid, wd |-> wd, wt |-> wt]

\* What the lookups of one row can meet.
LookupReplies ==
    { LookupReply(QID, None, None, FullDate, None),
      LookupReply(QID, None, None, YearMonth, FullDate),
      LookupReply(Err, <<"g">>, QID, Err, YearOnly),
      LookupReply(None, <<"g">>, None, None, FullDate),
      LookupReply(None, None, None, None, None),
      LookupReply(Err, Err, Err, Err, Err) }

\* main up to target_idxs, with targets: seed when the file is missing or
\* has no rows, read, add the required columns.
FsdRead ==
    /\ pc = "idle"
    /\ LET seeded == songsFile = <<>> /\ seedFile # <<>>
           file   == IF seeded THEN seedFile ELSE songsFile
           rows   == WithRequired(read_csv(file))
       IN  /\ TargetIdxs(rows, 1) # <<>>
           /\ songsFile' = file
           /\ all_rows' = rows
           /\ target_idxs' = TargetIdxs(rows, 1)
    /\ fsd_count' = 0
    /\ fsd_lookups' = <<>>
    /\ pc' = "fsd_loop"
    /\ UNCHANGED <<day, seedFile, notFsd>>

\* main when no row lacks its release_date: it returns without writing.
FsdNothingToDo ==
    /\ pc = "idle"
    /\ LET seeded == songsFile = <<>> /\ seedFile # <<>>
           file   == IF seeded THEN seedFile ELSE songsFile
           rows   == WithRequired(read_csv(file))
       IN  /\ TargetIdxs(rows, 1) = <<>>
           /\ songsFile' = file
           /\ all_rows' = rows
           /\ target_idxs' = <<>>
    /\ pc' = "fsd_done"
    /\ UNCHANGED <<day, seedFile, fsd_count, fsd_lookups, notFsd>>

\* One iteration of the loop over target_idxs.
FsdProcessRow ==
    /\ pc = "fsd_loop"
    /\ fsd_count < Len(target_idxs)
    /\ \E net \in LookupReplies :
           LET i   == target_idxs[fsd_count + 1]
               res == process_row(all_rows[i], net)
               t   == TryProcessRow(all_rows[i], res)
           IN  /\ all_rows' = [all_rows EXCEPT ![i] = t.row]
               /\ fsd_lookups' =
                      Append(fsd_lookups, [idx |-> i, net |-> net, raised |-> res.raised])
               /\ pc' = IF t.propagates THEN "fsd_crashed" ELSE "fsd_loop"
    /\ fsd_count' = fsd_count + 1
    /\ UNCHANGED <<day, songsFile, seedFile, target_idxs, notFsd>>

\* write_csv(args.out_path, all_rows) after the loop
FsdWrite ==
    /\ pc = "fsd_loop"
    /\ fsd_count = Len(target_idxs)
    /\ songsFile' = write_csv(all_rows)
    /\ pc' = "fsd_written"
    /\ UNCHANGED <<day, seedFile, all_rows, target_idxs, fsd_count, fsd_lookups, notFsd>>

InitFsd ==
    /\ day = 1
    /\ pc = "idle"
    /\ songsFile \in SeqsOf(FsdFileRows, 0, MaxFsdRows)
    /\ seedFile \in {<<>>, <<FsdSeedRow>>}
    /\ all_rows = <<>>
    /\ target_idxs = <<>>
    /\ fsd_count = 0
    /\ fsd_lookups = <<>>
    /\ songs_rows = <<>>
    /\ song_facts = <<>>
    /\ kept_existing = <<>>
    /\ CanonUnused
    /\ UsUnused
    /\ CalUnused
    /\ RelUnused
    /\ BgUnused
    /\ HvUnused
    /\ DkUnused
    /\ DwUnused
    /\ MtUnused
    /\ HrUnused

NextFsd ==
    \/ FsdRead
    \/ FsdNothingToDo
    \/ FsdProcessRow
    \/ FsdWrite

SpecFsd == InitFsd /\ [][NextFsd]_vars

\* The row has a release_date in the file.
HasReleaseDate(r) ==
    "release_date" \in DOMAIN r /\ r.release_date # None /\ Strip(r.release_date) # EMPTY

\* The rows with a release_date are in `out` as they are in `in`, and `out`
\* has the rows of `in`, in their order.
NonBlankRowsKept(in, out) ==
    /\ Len(out) = Len(in)
    /\ \A i \in DOMAIN in :
           /\ out[i].title = OrEmpty(in[i].title)
           /\ out[i].byline = OrEmpty(in[i].byline)
           /\ HasReleaseDate(in[i]) => \A k \in SongCols : out[i][k] = in[i][k]

\* C13: fetch_song_release_dates writes the whole file back: a row that had a
\* release_date is written with its twelve columns unchanged, and the file
\* written has as many rows as the file read, in the same order.
C13_NonBlankRowsUnchanged ==
    [][pc = "fsd_loop" /\ pc' = "fsd_written" => NonBlankRowsKept(songsFile, songsFile')]_vars

\* A file with a dated row and a row whose date was found has been written.
C13_Witness ==
    /\ pc = "fsd_written"
    /\ \E i \in DOMAIN songsFile :
           /\ \A n \in DOMAIN target_idxs : target_idxs[n] # i
           /\ songsFile[i].release_date # EMPTY
    /\ \E n \in DOMAIN target_idxs : songsFile[target_idxs[n]].release_date = FullDate

\* Every lookup of the row found nothing or raised.
LookupsAllFail(net) ==
    /\ Nothing(net.qid) /\ Nothing(net.search) /\ Nothing(net.guess_qid)
    /\ Nothing(net.wd) /\ Nothing(net.wt)

\* The columns that are neither the release date, nor derived from it, nor
\* its provenance.
NonDateCols == SongCols \ {"release_date", "month", "day", "date_source"}

\* The targets the loop has handled so far, in order.
Attempted == [n \in DOMAIN fsd_lookups |-> fsd_lookups[n].idx]

\* C14: an error on one target row does not end the run: the loop attempts
\* every row without release_date exactly once, a row whose lookups all fail
\* keeps release_date, month and day blank and its non-date columns as they
\* were read, and the file is written from the rows after the loop.
C14_BatchSurvivesErrors ==
    /\ pc # "fsd_crashed"
    /\ pc = "fsd_loop" => Attempted = SubSeq(target_idxs, 1, fsd_count)
    /\ pc = "fsd_loop" /\ fsd_count = Len(target_idxs) =>
           \A n \in DOMAIN fsd_lookups :
               LET i == fsd_lookups[n].idx
                   read == WithRequired(songsFile)[i]
               IN  /\ \A k \in NonDateCols : all_rows[i][k] = read[k]
                   /\ LookupsAllFail(fsd_lookups[n].net) \/ fsd_lookups[n].raised =>
                          /\ OrEmpty(all_rows[i].release_date) = EMPTY
                          /\ OrEmpty(all_rows[i].month) = EMPTY
                          /\ OrEmpty(all_rows[i].day) = EMPTY
    /\ pc = "fsd_written" => Attempted = target_idxs /\ songsFile = write_csv(all_rows)

\* The file has been written by a run in which process_row raised for one
\* row and every lookup of the row after it failed.
C14_Witness ==
    /\ pc = "fsd_written"
    /\ Len(fsd_lookups) = 2
    /\ fsd_lookups[1].raised
    /\ ~fsd_lookups[2].raised /\ LookupsAllFail(fsd_lookups[2].net)
    /\ songsFile[fsd_lookups[2].idx].release_date = EMPTY
    /\ songsFile[fsd_lookups[1].idx].date_source # EMPTY

(***************************************************************************)
(* merge_albums of build_albums_us_1m.py and a fresh figure of zero.        *)
(***************************************************************************)

\* The rows of df with key k whose shipments_units is not zero.
NonZeroUnits(df, k) ==
    {i \in DOMAIN df : key_from_row(df[i]) = k /\ df[i].shipments_units # 0}

\* C15: merge_albums does not replace a value by an empty or zero fresh
\* value: a key has as many rows with a non-zero shipments_units after the
\* merge as the existing table had.
C15_NonZeroUnitsKept ==
    pc = "us_merged" =>
        \A i \in DOMAIN us_existing :
            LET k == key_from_row(us_existing[i])
            IN  Cardinality(NonZeroUnits(us_merged.df, k))
                    >= Cardinality(NonZeroUnits(us_existing, k))

(***************************************************************************)
(* backoff_get of scripts/pull_births_deaths.py and of                     *)
(* scripts/fetch_song_release_dates.py: one call, request by request.  The *)
(* server is external: each request meets a status code chosen by the     *)
(* environment, or ConnError when s.get itself raises.                      *)
(***************************************************************************)

ConnError == 0

\* `r.status_code in (400, ...)`: the codes that raise at once, per copy
TerminalCodes(script) ==
    IF script = "pull_births_deaths"
    THEN {400, 401, 402, 403, 404, 405, 406, 410}
    ELSE {400, 401, 403, 404, 405, 410}

\* `r.status_code in (429, 500, 502, 503, 504)`
RetryableCodes == {429, 500, 502, 503, 504}

\* requests' Response.raise_for_status() raises for 4xx and 5xx only.
RaisesForStatus(status) == 400 <= status /\ status < 600

\* Mutant of LastAttempt: the last attempt is not told apart.
LastAttempt_Never(attempt, max_retries) == FALSE

\* `if attempt == max_retries`
LastAttempt(attempt, max_retries) == attempt = max_retries

\* One pass of the loop body for the given attempt and status: whether the
\* call returns r, raises, or goes on, and whether it sleeps before going on.
LoopBody(script, attempt, max_retries, status) ==
    IF status = ConnError THEN [next |-> "bg_raised", slept |-> FALSE]
    ELSE IF status = 200 THEN [next |-> "bg_returned", slept |-> FALSE]
    ELSE IF status \in TerminalCodes(script) THEN [next |-> "bg_raised", slept |-> FALSE]
    ELSE IF status \in RetryableCodes
    THEN IF LastAttempt(attempt, max_retries)
         THEN [next |-> "bg_raised", slept |-> FALSE]
         ELSE [next |-> "bg_loop", slept |-> TRUE]
    ELSE IF RaisesForStatus(status) THEN [next |-> "bg_raised", slept |-> FALSE]
    ELSE [next |-> "bg_loop", slept |-> FALSE]

MaxRetries == 3

\* The statuses of the model: success, codes of both lists, 402 (terminal in
\* one copy only), 418 (in no list, an error) and 204 (in no list, no
\* error).
StatusCodes == {200, 404, 402, 429, 503, 418, 204}

\* backoff_get(s, url, ...) is called.
BgCall ==
    /\ pc = "idle"
    /\ bg_script' \in {"pull_births_deaths", "fetch_song_release_dates"}
    /\ bg_max_retries' \in 1..MaxRetries
    /\ bg_statuses' = <<>>
    /\ bg_sleeps' = <<>>
    /\ pc' = "bg_loop"
    /\ UNCHANGED <<day, notBg>>

\* for attempt in range(1, max_retries + 1): one pass
BgRequest ==
    /\ pc = "bg_loop"
    /\ Len(bg_statuses) < bg_max_retries
    /\ \E status \in StatusCodes \cup {ConnError} :
           LET attempt == Len(bg_statuses) + 1
               body    == LoopBody(bg_script, attempt, bg_max_retries, status)
           IN  /\ bg_statuses' = Append(bg_statuses, status)
               /\ bg_sleeps' = IF body.slept THEN Append(bg_sleeps, Len(bg_sleeps))
                               ELSE bg_sleeps
               /\ pc' = body.next
    /\ UNCHANGED <<day, bg_script, bg_max_retries, notBg>>

\* The loop ends without return or raise: return None.
BgExhausted ==
    /\ pc = "bg_loop"
    /\ Len(bg_statuses) = bg_max_retries
    /\ pc' = "bg_none"
    /\ UNCHANGED <<day, bgVars, notBg>>

InitBackoff ==
    /\ day = 1
    /\ pc = "idle"
    /\ BgUnused
    /\ CanonUnused
    /\ UsUnused
    /\ CalUnused
    /\ RelUnused
    /\ SongsUnused
    /\ FsdUnused
    /\ HvUnused
    /\ DkUnused
    /\ DwUnused
    /\ MtUnused
    /\ HrUnused

NextBackoff ==
    \/ BgCall
    \/ BgRequest
    \/ BgExhausted

SpecBackoff == InitBackoff /\ [][NextBackoff]_vars

\* The terminal and the retryable statuses as the two copies share them.
ClaimTerminal == {400, 401, 403, 404, 405, 410}

\* The requests before the last attempt that met a retryable status.
RetriedAt == {n \in DOMAIN bg_statuses : bg_statuses[n] \in RetryableCodes /\ n < bg_max_retries}

\* C16: backoff_get makes at most max_retries requests; a terminal status
\* raises at once (after one request and no sleep when it is the first
\* reply); a retryable status is followed by one sleep and another request,
\* except on the last attempt, where it raises; the call returns the
\* response only for a 200.
C16_BoundedRetry ==
    /\ Len(bg_statuses) <= bg_max_retries
    /\ Len(bg_sleeps) = Cardinality(RetriedAt)
    /\ \A n \in DOMAIN bg_statuses :
           /\ bg_statuses[n] \in ClaimTerminal =>
                  n = Len(bg_statuses) /\ pc = "bg_raised"
           /\ bg_statuses[n] \in RetryableCodes /\ n = bg_max_retries => pc = "bg_raised"
           /\ bg_statuses[n] \in RetryableCodes /\ n < bg_max_retries /\ n = Len(bg_statuses) =>
                  pc = "bg_loop"
           /\ bg_statuses[n] = 200 => n = Len(bg_statuses) /\ pc = "bg_returned"
    /\ pc = "bg_returned" => bg_statuses[Len(bg_statuses)] = 200
    /\ bg_statuses # <<>> /\ bg_statuses[1] \in ClaimTerminal =>
           Len(bg_statuses) = 1 /\ bg_sleeps = <<>>

\* A call that met retryable statuses on every attempt has raised on the
\* last one, after a sleep between the attempts.
C16_Witness ==
    /\ pc = "bg_raised"
    /\ Len(bg_statuses) = bg_max_retries
    /\ bg_max_retries >= 2
    /\ \A n \in DOMAIN bg_statuses : bg_statuses[n] \in RetryableCodes
    /\ Len(bg_sleeps) = bg_max_retries - 1

(***************************************************************************)
(* scripts/build_arts_on_this_day.py: http_get_conditional, request by     *)
(* request, inside the pass of harvest_songs_incremental for one year.     *)
(***************************************************************************)

\* `r.status_code in (403, 429, 500, 502, 503, 504)`
HgRetryableCodes == {403, 429, 500, 502, 503, 504}

\* One pass of the loop body of http_get_conditional.
HgLoopBody(attempt, max_retries, status) ==
    IF status = ConnError THEN [next |-> "hg_raised", slept |-> FALSE]
    ELSE IF status = 200 THEN [next |-> "hg_returned", slept |-> FALSE]
    ELSE IF status = 304 THEN [next |-> "hg_none", slept |-> FALSE]
    ELSE IF status \in HgRetryableCodes
    THEN IF attempt = max_retries
         THEN [next |-> "hg_raised", slept |-> FALSE]
         ELSE [next |-> "hg_loop", slept |-> TRUE]
    ELSE IF RaisesForStatus(status) THEN [next |-> "hg_raised", slept |-> FALSE]
    ELSE [next |-> "hg_loop", slept |-> FALSE]

\* The statuses of the model: success, not modified, a retryable error, an
\* error that is not retried, and two statuses that are no error.
HgStatusCodes == {200, 304, 503, 404, 204, 202}

\* The year the pass is about, and another year.
TargetYear == 1982

OtherYear == 1981

\* A Last-Modified value saved by an earlier run, and the one of the page
\* now.
SavedLastModified == <<"o", "l", "d">>

PageLastModified == <<"n", "e", "w">>

\* The rows a page can be parsed into (their years; parse_year_page gives
\* rows of the year of the page).
ParsedPages == {<<>>, <<TargetYear>>, <<TargetYear, TargetYear>>}

\* for year in target_years: ... resp = http_get_conditional(s, url, ims)
HvFetchYear ==
    /\ pc = "idle"
    /\ hv_max_retries' \in 1..MaxRetries
    /\ hv_statuses' = <<>>
    /\ hv_backoffs' = <<>>
    /\ hv_fresh_rows' = <<>>
    /\ pc' = "hg_loop"
    /\ UNCHANGED <<day, hv_state, hv_existing, notHv>>

\* for attempt in range(1, max_retries + 1): one pass
HgRequest ==
    /\ pc = "hg_loop"
    /\ Len(hv_statuses) < hv_max_retries
    /\ \E status \in HgStatusCodes \cup {ConnError} :
           LET body == HgLoopBody(Len(hv_statuses) + 1, hv_max_retries, status)
           IN  /\ hv_statuses' = Append(hv_statuses, status)
               /\ hv_backoffs' = IF body.slept THEN Append(hv_backoffs, Len(hv_backoffs))
                                 ELSE hv_backoffs
               /\ pc' = body.next
    /\ UNCHANGED <<day, hv_state, hv_existing, hv_fresh_rows, hv_max_retries, notHv>>

\* The loop of http_get_conditional ends: return None.
HgExhausted ==
    /\ pc = "hg_loop"
    /\ Len(hv_statuses) = hv_max_retries
    /\ pc' = "hg_none"
    /\ UNCHANGED <<day, hvVars, notHv>>

\* except Exception as e: print(...); continue
HvFetchError ==
    /\ pc = "hg_raised"
    /\ pc' = "hv_skipped"
    /\ UNCHANGED <<day, hvVars, notHv>>

\* if resp is None: reuse the existing rows of the year
HvNotModified ==
    /\ pc = "hg_none"
    /\ hv_fresh_rows' = hv_fresh_rows \o SelectSeq(hv_existing, LAMBDA y : y = TargetYear)
    /\ pc' = "hv_reused"
    /\ UNCHANGED <<day, hv_state, hv_existing, hv_max_retries, hv_statuses, hv_backoffs, notHv>>

\* parsed = parse_year_page(...); state[str(year)] = lm when the response
\* has a Last-Modified header
HvParsed ==
    /\ pc = "hg_returned"
    /\ \E parsed \in ParsedPages, lm \in {None, PageLastModified} :
           /\ hv_fresh_rows' = hv_fresh_rows \o parsed
           /\ hv_state' = IF lm # None THEN lm ELSE hv_state
    /\ pc' = "hv_parsed"
    /\ UNCHANGED <<day, hv_existing, hv_max_retries, hv_statuses, hv_backoffs, notHv>>

InitHarvest ==
    /\ day = 1
    /\ pc = "idle"
    /\ hv_state \in {None, SavedLastModified}
    /\ hv_existing \in {<<>>, <<TargetYear>>, <<OtherYear, TargetYear>>}
    /\ hv_fresh_rows = <<>>
    /\ hv_max_retries = 0
    /\ hv_statuses = <<>>
    /\ hv_backoffs = <<>>
    /\ CanonUnused
    /\ UsUnused
    /\ CalUnused
    /\ RelUnused
    /\ SongsUnused
    /\ FsdUnused
    /\ BgUnused
    /\ DkUnused
    /\ DwUnused
    /\ MtUnused
    /\ HrUnused

NextHarvest ==
    \/ HvFetchYear
    \/ HgRequest
    \/ HgExhausted
    \/ HvFetchError
    \/ HvNotModified
    \/ HvParsed

SpecHarvest == InitHarvest /\ [][NextHarvest]_vars

\* C17: http_get_conditional returns None only after a 304, so the harvest
\* takes a year for not modified (reuses its rows) only after a 304.
C17_NoneOnlyAfter304 ==
    pc \in {"hg_none", "hv_reused"} =>
        hv_statuses # <<>> /\ hv_statuses[Len(hv_statuses)] = 304

(***************************************************************************)
(* scripts/build_arts_on_this_day.py: dedupe_keep_earliest.                *)
(***************************************************************************)

\* key = (r["title"].lower(), r["byline"].lower())
DedupKey(r) == <<Lower(r.title), Lower(r.byline)>>

\* The position of key k in the dict (0 when absent); a dict keeps its keys
\* in insertion order.
DedupIndex(dedup, k) ==
    IF \E i \in DOMAIN dedup : dedup[i].key = k
    THEN CHOOSE i \in DOMAIN dedup : dedup[i].key = k
    ELSE 0

\* `if a and b and b < a`
Earlier(a, b) == a # EMPTY /\ b # EMPTY /\ TextLess(b, a)

\* for r in rows: ...
RECURSIVE DedupLoop(_, _, _)
DedupLoop(rows, n, dedup) ==
    IF n > Len(rows) THEN dedup
    ELSE LET r == rows[n]
             k == DedupKey(r)
             i == DedupIndex(dedup, k)
         IN  IF i = 0
             THEN DedupLoop(rows, n + 1, Append(dedup, [key |-> k, row |-> r]))
             ELSE IF Earlier(dedup[i].row.entry_date, r.entry_date)
             THEN DedupLoop(rows, n + 1, [dedup EXCEPT ![i].row = r])
             ELSE DedupLoop(rows, n + 1, dedup)

\* dedupe_keep_earliest(rows): list(dedup.values()) sorted (stable) by
\* (entry_date, title.lower())
dedupe_keep_earliest(rows) ==
    LET dedup  == DedupLoop(rows, 1, <<>>)
        pairs  == [i \in DOMAIN dedup |->
                      <<<<dedup[i].row.entry_date, Lower(dedup[i].row.title)>>,
                        dedup[i].row>>]
        sorted == SortPairs(pairs)
    IN  [i \in DOMAIN sorted |-> sorted[i][2]]

ChartRow(title, byline, entry_date, peak_position) ==
    [title |-> title, byline |-> byline, entry_date |-> entry_date,
     peak_position |-> peak_position]

\* Chart rows: one song under two spellings and with and without a parsed
\* entry date, and a second song on two dates.
ChartRows ==
    { ChartRow(<<"t">>, <<"b">>, FullDate, <<"1">>),
      ChartRow(<<"T">>, <<"B">>, EarlierDate, <<"2">>),
      ChartRow(<<"t">>, <<"b">>, EMPTY, <<"3">>),
      ChartRow(<<"a">>, <<"b">>, FullDate, <<"4">>),
      ChartRow(<<"a">>, <<"b">>, EarlierDate, <<"5">>) }

MaxChartRows == 3

\* combined = dedupe_keep_earliest(fresh_rows + untouched)
DedupeKeepEarliest ==
    /\ pc = "idle"
    /\ dk_out' = dedupe_keep_earliest(dk_rows)
    /\ pc' = "dk_done"
    /\ UNCHANGED <<day, dk_rows, notDk>>

InitDedupe ==
    /\ day = 1
    /\ pc = "idle"
    /\ dk_rows \in SeqsOf(ChartRows, 0, MaxChartRows)
    /\ dk_out = <<>>
    /\ CanonUnused
    /\ UsUnused
    /\ CalUnused
    /\ RelUnused
    /\ SongsUnused
    /\ FsdUnused
    /\ BgUnused
    /\ HvUnused
    /\ DwUnused
    /\ MtUnused
    /\ HrUnused

NextDedupe == DedupeKeepEarliest

SpecDedupe == InitDedupe /\ [][NextDedupe]_vars

\* The non-empty entry dates of the rows of dk_rows with key k.
EntryDates(k) ==
    {dk_rows[i].entry_date : i \in {j \in DOMAIN dk_rows :
        DedupKey(dk_rows[j]) = k /\ dk_rows[j].entry_date # EMPTY}}

\* C18: dedupe_keep_earliest returns one row per key (lower(title),
\* lower(byline)) of its input, the row of a key carries the earliest of the
\* non-empty entry dates of that key, and the list is in ascending order of
\* (entry_date, lower(title)).
C18_OnePerKeyEarliestSorted ==
    pc = "dk_done" =>
        /\ {DedupKey(dk_out[i]) : i \in DOMAIN dk_out}
               = {DedupKey(dk_rows[i]) : i \in DOMAIN dk_rows}
        /\ \A i, j \in DOMAIN dk_out : i # j => DedupKey(dk_out[i]) # DedupKey(dk_out[j])
        /\ \A i \in DOMAIN dk_out :
               LET dates == EntryDates(DedupKey(dk_out[i]))
               IN  dates # {} =>
                       /\ dk_out[i].entry_date \in dates
                       /\ \A d \in dates : ~TextLess(d, dk_out[i].entry_date)
        /\ \A i \in DOMAIN dk_out : i < Len(dk_out) =>
               ~KeyLess(<<dk_out[i + 1].entry_date, Lower(dk_out[i + 1].title)>>,
                        <<dk_out[i].entry_date, Lower(dk_out[i].title)>>)

(***************************************************************************)
(* build_albums_canon.py: dedupe_wiki_albums on the rows of the lists.     *)
(***************************************************************************)

\* Scraped rows: one album under three spellings with three figures (two of
\* them equal), and a second album without figure.
DedupeWikiRows ==
    PipeWikiRows \cup
        {WikiRow(<<" ", "a">>, <<"T">>, <<"2">>, EMPTY, <<"2">>, <<"a">>, EMPTY, <<"1">>)}

MaxWikiRaw == 3

\* deduped = dedupe_wiki_albums(raw)
DedupeWikiAlbums ==
    /\ pc = "idle"
    /\ dw_deduped' = dedupe_wiki_albums(dw_raw)
    /\ pc' = "dw_done"
    /\ UNCHANGED <<day, dw_raw, notDw>>

InitDedupeWiki ==
    /\ day = 1
    /\ pc = "idle"
    /\ dw_raw \in SeqsOf(DedupeWikiRows, 0, MaxWikiRaw)
    /\ dw_deduped = <<>>
    /\ CanonUnused
    /\ UsUnused
    /\ CalUnused
    /\ RelUnused
    /\ SongsUnused
    /\ FsdUnused
    /\ BgUnused
    /\ HvUnused
    /\ DkUnused
    /\ MtUnused
    /\ HrUnused

NextDedupeWiki == DedupeWikiAlbums

SpecDedupeWiki == InitDedupeWiki /\ [][NextDedupeWiki]_vars

\* C19: dedupe_wiki_albums returns one row per normalized (artist, album)
\* key of its input, a row of the input, whose shipments_units is the highest
\* among the input rows of that key.
C19_OnePerKeyMaxUnits ==
    pc = "dw_done" =>
        /\ {key_from_row(dw_deduped[i]) : i \in DOMAIN dw_deduped}
               = {key_from_row(dw_raw[i]) : i \in DOMAIN dw_raw}
        /\ ~HasDuplicateKey(dw_deduped)
        /\ \A i \in DOMAIN dw_deduped :
               /\ \E j \in DOMAIN dw_raw : dw_raw[j] = dw_deduped[i]
               /\ \A j \in DOMAIN dw_raw :
                      key_from_row(dw_raw[j]) = key_from_row(dw_deduped[i]) =>
                          dw_raw[j].shipments_units <= dw_deduped[i].shipments_units

\* A key had two rows, the second with the higher figure, and one row came
\* out.
C19_Witness ==
    /\ pc = "dw_done"
    /\ Len(dw_deduped) < Len(dw_raw)
    /\ \E i, j \in DOMAIN dw_raw :
           /\ i < j
           /\ key_from_row(dw_raw[i]) = key_from_row(dw_raw[j])
           /\ dw_raw[i].shipments_units < dw_raw[j].shipments_units

(***************************************************************************)
(* merge_with_existing and the shipments figure of a key.                  *)
(***************************************************************************)

MaxOf(a, b) == IF a > b THEN a ELSE b

\* C20: in merge_with_existing the shipments_units of a matched key becomes
\* the greater of its previous value and the fresh row's value, so it never
\* decreases; a greater fresh value stamps added_on with today, and a row that
\* no field changed keeps its added_on; keys without fresh row keep their
\* rows.
C20_UnitsNeverDecrease ==
    pc = "merged" =>
        /\ \A n \in DOMAIN wiki_deduped :
               LET f == wiki_deduped[n]
                   k == key_from_row(f)
               IN  k \in KeysOf(existing) =>
                       \E e \in RowsWithKey(existing, k), o \in RowsWithKey(merged.df, k) :
                           /\ KeyGroupReplaces(existing, merged.df, k, e, o)
                           /\ o.shipments_units = MaxOf(e.shipments_units, f.shipments_units)
                           /\ o.shipments_units > e.shipments_units =>
                                  o.added_on = TodayStr(day)
                           /\ (\A col \in Designated : o[col] = e[col]) =>
                                  o.added_on = e.added_on
        /\ \A k \in KeysOf(existing) \ KeysOf(wiki_deduped) :
               KeyGroupUntouched(existing, merged.df, k)

\* One merge met a fresh figure above the existing one and, for another key,
\* a fresh figure below the existing one.
C20_Witness ==
    /\ pc = "merged"
    /\ \E e \in Range(existing), f \in Range(wiki_deduped) :
           /\ key_from_row(e) = key_from_row(f)
           /\ CountKey(existing, key_from_row(e)) = 1
           /\ f.shipments_units > e.shipments_units
           /\ e.added_on # TodayStr(day)
    /\ \E e \in Range(existing), f \in Range(wiki_deduped) :
           /\ key_from_row(e) = key_from_row(f)
           /\ f.shipments_units < e.shipments_units

(***************************************************************************)
(* merge_with_existing called twice with the same fresh rows on one day.   *)
(***************************************************************************)

\* merge_with_existing(merged, fresh) on the frame the first call returned
MergeAgain ==
    /\ pc = "merged"
    /\ merged_again' = merge_with_existing(merged.df, wiki_deduped, day)
    /\ pc' = "merged_again"
    /\ UNCHANGED <<day, notMt>>

InitMergeTwice == InitMerge

NextMergeTwice ==
    \/ Merge
    \/ MergeAgain

SpecMergeTwice == InitMergeTwice /\ [][NextMergeTwice]_vars

\* C21: for an existing table and fresh rows with one row per key, merging
\* the same fresh rows again on the same day into the result of the merge
\* reports no new and no updated row, counts every fresh row as unchanged,
\* and returns the table as it was, added_on included.
C21_MergeIdempotent ==
    pc = "merged_again" /\ ~HasDuplicateKey(existing) /\ ~HasDuplicateKey(wiki_deduped) =>
        /\ merged_again.new_count = 0
        /\ merged_again.updated_count = 0
        /\ merged_again.unchanged_count = Len(wiki_deduped)
        /\ merged_again.df = merged.df

\* The first merge of key-unique tables appended a row and changed a row,
\* and the merge has been repeated.
C21_Witness ==
    /\ pc = "merged_again"
    /\ ~HasDuplicateKey(existing)
    /\ ~HasDuplicateKey(wiki_deduped)
    /\ merged.new_count >= 1
    /\ merged.updated_count >= 1

(***************************************************************************)
(* enrich_mb_details and the rows that still lack their MusicBrainz        *)
(* details, over the runs of build_albums_canon.py.                        *)
(***************************************************************************)

\* The row has a musicbrainz_id and its release date or its country is
\* missing (an empty text, or the NaN an empty cell of the file is read as).
LacksDetails(row) ==
    /\ ~BlankCell(row.musicbrainz_id)
    /\ BlankCell(row.mb_release_date_iso) \/ BlankCell(row.mb_country)

\* C22: in every run, enrich_mb_details looks up the details of every row
\* that has a musicbrainz_id and lacks mb_release_date_iso or mb_country,
\* whether the row comes from the file of an earlier run or got its id in
\* this run.
C22_LackingRowsLookedUp ==
    pc = "details" =>
        \A n \in DOMAIN ids.df :
            LacksDetails(ids.df[n]) => \E c \in DOMAIN details.calls : details.calls[c] = n

(***************************************************************************)
(* scripts/build_arts_on_this_day.py: harvest_songs_incremental over its   *)
(* target years, one action per year, then the combination.                *)
(***************************************************************************)

\* max_retries of http_get_conditional as harvest_songs_incremental calls it
HgMaxRetries == 5

\* http_get_conditional(s, url, ims) against a server that answers with
\* `statuses`, in order, and then no more (the request raises): how the
\* call ends.
RECURSIVE http_get_conditional(_, _)
http_get_conditional(statuses, attempt) ==
    IF attempt > HgMaxRetries THEN "hg_none"
    ELSE LET status == IF attempt > Len(statuses) THEN ConnError ELSE statuses[attempt]
             body   == HgLoopBody(attempt, HgMaxRetries, status)
         IN  IF body.next = "hg_loop" THEN http_get_conditional(statuses, attempt + 1)
             ELSE body.next

\* u.rsplit("_", 1)[-1]
RECURSIVE AfterLastUnderscore(_)
AfterLastUnderscore(u) ==
    IF u = <<>> \/ u[Len(u)] = "_" THEN <<>>
    ELSE AfterLastUnderscore(SubSeq(u, 1, Len(u) - 1)) \o <<u[Len(u)]>>

\* year_from_url(u) or 0: the number after the last underscore, 0 when it
\* is no number
YearFromUrlOr0(u) ==
    IF IsDigits(AfterLastUnderscore(u)) THEN DigitsToInt(AfterLastUnderscore(u)) ELSE 0

\* years_to_fetch(False): [cy, cy-1, cy-2], cy being TargetYear
years_to_fetch == <<TargetYear, TargetYear - 1, TargetYear - 2>>

\* WIKI_PAGE_TPL.format(year=year), shortened
PageUrl(year) == <<"w", "_">> \o IntToText(year)

HarvestRow(title, byline, entry_date, source_url) ==
    [title |-> title, byline |-> byline, entry_date |-> entry_date,
     peak_position |-> <<"5">>, source_url |-> source_url]

\* Rows of data/songs_top10_us.csv: songs of the three target years, a song
\* of an earlier year, and a song whose source_url has no year.
HarvestExistingRows ==
    { HarvestRow(<<"t">>, <<"b">>, FullDate, PageUrl(TargetYear)),
      HarvestRow(<<"u">>, <<"b">>, EarlierDate, PageUrl(TargetYear - 1)),
      HarvestRow(<<"a">>, <<"b">>, EarlierDate, PageUrl(TargetYear - 2)),
      HarvestRow(<<"s">>, <<"b">>, EarlierDate, PageUrl(TargetYear - 3)),
      HarvestRow(<<"m">>, <<"b">>, EMPTY, <<"w">>) }

MaxHarvestRows == 2

\* What the server answers for one year page.
HarvestReplies ==
    { <<200>>, <<304>>, <<404>>, <<503, 200>>, <<503, 304>>, <<>> }

\* What parse_year_page makes of the page of a year.
HarvestPages(year) ==
    { <<>>,
      <<HarvestRow(<<"T">>, <<"b">>, EarlierDate, PageUrl(year))>>,
      <<HarvestRow(<<"g">>, <<"b">>, FullDate, PageUrl(year))>> }

\* state = load_state(); existing = read_existing_songs(); fresh_rows = []
HrStart ==
    /\ pc = "idle"
    /\ pc' = "hr_years"
    /\ UNCHANGED <<day, hrVars, notHr>>

\* The pass of the loop for the next target year.
HrYear ==
    /\ pc = "hr_years"
    /\ Len(hr_done) < Len(years_to_fetch)
    /\ LET year == years_to_fetch[Len(hr_done) + 1]
       IN  \E statuses \in HarvestReplies, parsed \in HarvestPages(year),
              lm \in {None, PageLastModified} :
               LET end == http_get_conditional(statuses, 1)
               IN  /\ hr_done' = Append(hr_done, [year |-> year, end |-> end])
                   /\ hr_fresh_rows' =
                          IF end = "hg_raised" THEN hr_fresh_rows
                          ELSE IF end = "hg_none"
                          THEN hr_fresh_rows \o
                                   SelectSeq(hr_existing,
                                             LAMBDA r : YearFromUrlOr0(r.source_url) = year)
                          ELSE hr_fresh_rows \o parsed
                   /\ hr_state' =
                          IF end = "hg_returned" /\ lm # None
                          THEN [hr_state EXCEPT ![Len(hr_done) + 1] = lm]
                          ELSE hr_state
                   /\ end # "hg_returned" => parsed = <<>> /\ lm = None
    /\ UNCHANGED <<day, pc, hr_existing, hr_combined, notHr>>

\* untouched = ...; combined = dedupe_keep_earliest(fresh_rows + untouched);
\* save_state(state); return combined
HrCombine ==
    /\ pc = "hr_years"
    /\ Len(hr_done) = Len(years_to_fetch)
    /\ LET untouched ==
               SelectSeq(hr_existing,
                         LAMBDA r : \A n \in DOMAIN years_to_fetch :
                                        YearFromUrlOr0(r.source_url) # years_to_fetch[n])
       IN  hr_combined' = dedupe_keep_earliest(hr_fresh_rows \o untouched)
    /\ pc' = "hr_done"
    /\ UNCHANGED <<day, hr_existing, hr_state, hr_done, hr_fresh_rows, notHr>>

InitHarvestRun ==
    /\ day = 1
    /\ pc = "idle"
    /\ hr_existing \in SeqsOf(HarvestExistingRows, 0, MaxHarvestRows)
    /\ hr_state \in {[n \in DOMAIN years_to_fetch |-> None],
                     [n \in DOMAIN years_to_fetch |-> SavedLastModified]}
    /\ hr_done = <<>>
    /\ hr_fresh_rows = <<>>
    /\ hr_combined = <<>>
    /\ CanonUnused
    /\ UsUnused
    /\ CalUnused
    /\ RelUnused
    /\ SongsUnused
    /\ FsdUnused
    /\ BgUnused
    /\ HvUnused
    /\ DkUnused
    /\ DwUnused
    /\ MtUnused

NextHarvestRun ==
    \/ HrStart
    \/ HrYear
    \/ HrCombine

SpecHarvestRun == InitHarvestRun /\ [][NextHarvestRun]_vars

\* The page of the year of row r was not parsed again in this run: the year
\* is no target year, or its pass ended without a response.
NotReparsed(r) ==
    \A n \in DOMAIN hr_done :
        hr_done[n].year = YearFromUrlOr0(r.source_url) => hr_done[n].end # "hg_returned"

\* C23: harvest_songs_incremental returns a row for the key of every
\* existing song whose year is no target year, or was answered 304, or
\* whose fetch raised.
C23_NoSongLost ==
    pc = "hr_done" =>
        \A i \in DOMAIN hr_existing :
            NotReparsed(hr_existing[i]) =>
                \E j \in DOMAIN hr_combined :
                    DedupKey(hr_combined[j]) = DedupKey(hr_existing[i])

(***************************************************************************)
(* build_calendar_index_songs.py run again over a calendar index that      *)
(* already holds song facts.                                               *)
(***************************************************************************)

\* Rows old and new are the same song fact: both of the songs source, with
\* the same iso_date, fact_tags, title and byline.
SameSongFact(old, new) ==
    /\ Strip(old.source_system) = SONG_SOURCE_SYSTEM
    /\ new.source_system = SONG_SOURCE_SYSTEM
    /\ old.iso_date = new.iso_date
    /\ old.fact_tags = new.fact_tags
    /\ old.title = new.title
    /\ old.byline = new.byline

\* C24: when build_calendar_index_songs writes the calendar index, a song
\* fact that was in the index before and is in it after has the used_on,
\* use_count and added_on it had.
C24_SongFactUsageKept ==
    [][pc = "songs_kept" /\ pc' = "songs_written" =>
          \A i \in DOMAIN calFile, j \in DOMAIN calFile' :
              SameSongFact(calFile[i], calFile'[j]) =>
                  /\ calFile'[j].used_on = calFile[i].used_on
                  /\ calFile'[j].use_count = calFile[i].use_count
                  /\ calFile'[j].added_on = calFile[i].added_on]_vars

====
